---------------------------- MODULE Spec2Model ----------------------------
(***************************************************************************)
(* A model of compiler.c: the in-memory x86-64 compiler for a small Lisp.  *)
(* The compiler (the AST_compile functions) is translated one by one into   *)
(* operators that thread the BufferWriter; the emitted bytes are then run  *)
(* by a byte-level interpreter of the instructions the emitters produce.   *)
(*                                                                         *)
(* 64-bit machine words are tuples of 8 bytes, least significant first     *)
(* (as Buffer_write32 lays immediates out), so that no width is lost.      *)
(* C int / int32_t values are integers kept within 32 bits.                *)
(*                                                                         *)
(* Spec is run_test with a test body: compile, Buffer_make_executable,     *)
(* Testing_call_entry.  BufferSpec is the buffer on its own, under any     *)
(* sequence of calls of its interface, with the outcomes of mmap and       *)
(* mprotect.                                                               *)
(***************************************************************************)
EXTENDS Integers, Sequences, FiniteSets, TLC

VARIABLES
  phase,     \* position of the test driver: "start", "compiled", "executable",
             \* "running", "done", "fault", "failed", "aborted", "segv"
             \* (in BufferSpec: "ready" between two calls)
  driver,    \* which compiler driver the test body calls (in BufferSpec:
             \* the function called last)
  node,      \* the ASTNode handed to the driver (in BufferSpec: the
             \* arguments of the last call)
  writer,    \* the BufferWriter and its Buffer (address, len, state, pos),
             \* with the protection of its pages
  result,    \* the int the driver returned (in BufferSpec: the last call)
  heap,      \* the 64-bit heap base passed to Testing_call_entry
  rip,       \* offset of the next instruction in the buffer
  rsp,       \* stack pointer, as a byte offset from its value at entry
  rax, rsi, rdi, zf,   \* registers and the zero flag
  stack,     \* written stack slots: offset from the entry rsp -> word
  mem,       \* written heap words: offset from the heap base -> word
  trace      \* offsets of the instructions executed so far, in order

vars == <<phase, driver, node, writer, result, heap, rip, rsp, rax, rsi, rdi,
          zf, stack, mem, trace>>

---------------------------------------------------------------------------
(* Bounds of the model *)

\* fixnum literals of the generated programs range over -MaxFix..MaxFix
MaxFix == 1

---------------------------------------------------------------------------
(* Objects *)

kPairTag == 1
kCharTag == 15
kBoolTag == 31
kBoolShift == 7
kCharShift == 8
kFixnumShift == 2

MinInt32 == (-2147483647) - 1

\* f << 2 on an int32_t, computed by the wrapping shift the build produces
Shl2Int32(f) ==
  LET low == f % 536870912
      bit29 == (f \div 536870912) % 2
  IN IF bit29 = 1 THEN ((low * 4) - 2147483647) - 1 ELSE low * 4

\* the two range assertions of encodeImmediateFixnum
encodeImmediateFixnum_ok(f) == f < 2147483647 /\ f > MinInt32

encodeImmediateFixnum(f) == Shl2Int32(f)

encodeImmediateBool(value) == ((IF value THEN 1 ELSE 0) * 128) + kBoolTag

encodeImmediateChar(c) == (c * 256) + kCharTag

---------------------------------------------------------------------------
(* Bytes and words *)

Pow2(k) == CASE k = 0 -> 1 [] k = 1 -> 2 [] k = 2 -> 4 [] k = 3 -> 8
             [] k = 4 -> 16 [] k = 5 -> 32 [] k = 6 -> 64 [] k = 7 -> 128
             [] OTHER -> 256

\* (value >> (i * kBitsPerByte)) & 0xff for an int32_t value, i in 0..3
ByteOf(value, i) ==
  (value \div (CASE i = 0 -> 1 [] i = 1 -> 256 [] i = 2 -> 65536
                 [] OTHER -> 16777216)) % 256

Imm32(value) == <<ByteOf(value, 0), ByteOf(value, 1), ByteOf(value, 2),
                  ByteOf(value, 3)>>

\* the 64-bit word an int32_t converts to (sign extension)
SignExt64(value) ==
  Imm32(value) \o (IF value < 0 THEN <<255, 255, 255, 255>> ELSE <<0, 0, 0, 0>>)

\* the low four bytes as an int32_t
Int32Of(bytes) ==
  LET hi == bytes[4]
      low == bytes[1] + (256 * bytes[2]) + (65536 * bytes[3])
  IN IF hi >= 128 THEN ((hi - 256) * 16777216) + low
     ELSE (hi * 16777216) + low

ZeroWord == <<0, 0, 0, 0, 0, 0, 0, 0>>

\* a 32-bit result written to a 32-bit register clears the upper half
ZeroExt64(b4) == b4 \o <<0, 0, 0, 0>>

RECURSIVE AddBytes(_, _, _, _)
AddBytes(a, b, i, carry) ==
  IF i > Len(a) THEN <<>>
  ELSE LET s == a[i] + b[i] + carry
       IN <<s % 256>> \o AddBytes(a, b, i + 1, s \div 256)

Add64(a, b) == AddBytes(a, b, 1, 0)
Add32(a, b) == ZeroExt64(AddBytes(SubSeq(a, 1, 4), SubSeq(b, 1, 4), 1, 0))

NotBytes(a) == [i \in 1..Len(a) |-> 255 - a[i]]
One(n) == [i \in 1..n |-> IF i = 1 THEN 1 ELSE 0]
Neg64(a) == Add64(NotBytes(a), One(8))
Sub64(a, b) == Add64(a, Neg64(b))
Sub32(a, b) ==
  LET x == SubSeq(a, 1, 4)
      y == SubSeq(b, 1, 4)
  IN ZeroExt64(AddBytes(x, AddBytes(NotBytes(y), One(4), 1, 0), 1, 0))

RECURSIVE OrByte(_, _, _)
OrByte(x, y, n) ==
  IF n = 0 THEN 0
  ELSE (IF (x % 2) + (y % 2) > 0 THEN 1 ELSE 0)
       + (2 * OrByte(x \div 2, y \div 2, n - 1))

Or64(a, b) == [i \in 1..8 |-> OrByte(a[i], b[i], 8)]

\* shift left by bits (0..63) on a 64-bit word
Shl64(a, bits) ==
  LET q == bits \div 8
      r == bits % 8
      At(i) == IF i < 1 THEN 0 ELSE a[i]
  IN [i \in 1..8 |->
        ((At(i - q) * Pow2(r)) % 256) + (At(i - q - 1) \div Pow2(8 - r))]

\* int8_t conversion of an int, and its value as a displacement byte
ToInt8(x) == ((x + 128) % 256) - 128
SignedByte(b) == IF b >= 128 THEN b - 256 ELSE b

---------------------------------------------------------------------------
(* Machine code: Buffer and BufferWriter *)

\* run_test: Buffer_init(&buf, 100) and malloc(100 * kWordSize)
kBufferLen == 100
kHeapWords == 100

kBitsPerByte == 8
kWordSize == 8

kRax == 0
kRcx == 1
kRdx == 2
kRbx == 3
kRsp == 4
kRbp == 5
kRsi == 6
kRdi == 7
kAl == 0

Abort(w) == [w EXCEPT !.abort = TRUE]

\* Buffer_init followed by BufferWriter_init: an anonymous mapping is zero
\* filled and readable and writable (prot "rw"); mapped is whether mmap
\* succeeded, and the assert stops the process when it did not.  abort
\* records a failed assert and segv a store the page protection refuses (in
\* both cases the process is gone: nothing is written after it); ub records
\* a store outside the mapping.
Buffer_init(len, mapped) ==
  LET w == [address |-> [i \in 0..(len - 1) |-> 0], len |-> len,
            state |-> "kWritable", pos |-> 0, abort |-> FALSE, ub |-> FALSE,
            segv |-> FALSE, prot |-> IF mapped THEN "rw" ELSE "unmapped"]
  IN IF mapped THEN w ELSE Abort(w)

BufferWriter_init(len) == Buffer_init(len, TRUE)

\* munmap, and address = NULL: the region is gone
Buffer_deinit(w) ==
  IF w.abort \/ w.segv THEN w ELSE [w EXCEPT !.prot = "unmapped"]

\* buf->address[pos] = b, with no check of pos or of the buffer state: the
\* store is refused by the hardware when the page is not writable
Buffer_at_put(w, pos, b) ==
  IF w.abort \/ w.segv THEN w
  ELSE IF w.prot # "rw" THEN [w EXCEPT !.segv = TRUE]
  ELSE IF pos \in DOMAIN w.address THEN [w EXCEPT !.address[pos] = b]
  ELSE [w EXCEPT !.ub = TRUE]

\* mprotect(address, len, PROT_EXEC) returns mprotect_result (0, or -1 with
\* the protection unchanged); the state field is set whatever it returned
Buffer_make_executable(w, mprotect_result) ==
  IF w.abort \/ w.segv THEN w
  ELSE [w EXCEPT !.state = "kExecutable",
                 !.prot = IF mprotect_result = 0 /\ w.prot = "rw" THEN "x"
                          ELSE w.prot]

BufferWriter_get_pos(w) == w.pos

\* a variant without the assert of Buffer_write8: every byte is stored
Buffer_write_arr_unchecked(w, arr) ==
  IF w.abort \/ w.segv \/ arr = <<>> THEN w
  ELSE [w EXCEPT !.address = [i \in DOMAIN w.address |->
                                IF i >= w.pos /\ i < w.pos + Len(arr)
                                THEN arr[(i - w.pos) + 1] % 256
                                ELSE w.address[i]],
                 !.pos = w.pos + Len(arr),
                 !.ub = w.ub \/ w.pos + Len(arr) > w.len]

\* the bytes of arr that the loop of Buffer_write8 calls stores before the
\* assert pos < len stops it: all of them when they fit
Buffer_write_arr(w, arr) ==
  IF w.abort \/ w.segv \/ arr = <<>> THEN w
  ELSE IF w.pos < w.len /\ w.prot # "rw" THEN [w EXCEPT !.segv = TRUE]
  ELSE LET room == w.len - w.pos
           n == IF Len(arr) <= room THEN Len(arr) ELSE room
       IN [w EXCEPT !.address = [i \in DOMAIN w.address |->
                                   IF i >= w.pos /\ i < w.pos + n
                                   THEN arr[(i - w.pos) + 1] % 256
                                   ELSE w.address[i]],
                    !.pos = w.pos + n,
                    !.abort = Len(arr) > room]

Buffer_write8(w, b) == Buffer_write_arr(w, <<b>>)

Buffer_write32(w, value) == Buffer_write_arr(w, Imm32(value))

\* writes (writer->pos - pos_after_jump) over the four bytes before
\* pos_after_jump
\* a variant that leaves the placeholder in place
BufferWriter_backpatch_skipped(w, pos_after_jump) == w

\* a variant that measures the displacement from the first byte of the
\* placeholder instead of from the end of the jump
BufferWriter_backpatch_from_placeholder(w, pos_after_jump) ==
  LET relative == w.pos - (pos_after_jump - 4)
      displacement_first_byte == pos_after_jump - 4
      targets == displacement_first_byte..(displacement_first_byte + 3)
  IN IF w.abort \/ w.segv THEN w
     ELSE IF w.prot # "rw" THEN [w EXCEPT !.segv = TRUE]
     ELSE [w EXCEPT !.address = [i \in DOMAIN w.address |->
                                   IF i \in targets
                                   THEN ByteOf(relative, i - displacement_first_byte)
                                   ELSE w.address[i]],
                    !.ub = w.ub \/ ~(targets \subseteq DOMAIN w.address)]

\* a variant that stores the most significant byte first
BufferWriter_backpatch_big_endian(w, pos_after_jump) ==
  LET relative == w.pos - pos_after_jump
      displacement_first_byte == pos_after_jump - 4
      targets == displacement_first_byte..(displacement_first_byte + 3)
  IN IF w.abort \/ w.segv THEN w
     ELSE IF w.prot # "rw" THEN [w EXCEPT !.segv = TRUE]
     ELSE [w EXCEPT !.address = [i \in DOMAIN w.address |->
                                   IF i \in targets
                                   THEN ByteOf(relative,
                                               3 - (i - displacement_first_byte))
                                   ELSE w.address[i]],
                    !.ub = w.ub \/ ~(targets \subseteq DOMAIN w.address)]

BufferWriter_backpatch_displacement_imm32(w, pos_after_jump) ==
  LET relative == w.pos - pos_after_jump
      displacement_first_byte == pos_after_jump - 4
      Put(i) == ByteOf(relative, i - displacement_first_byte)
      targets == displacement_first_byte..(displacement_first_byte + 3)
  IN IF w.abort \/ w.segv THEN w
     ELSE IF w.prot # "rw" THEN [w EXCEPT !.segv = TRUE]
     ELSE [w EXCEPT !.address = [i \in DOMAIN w.address |->
                                   IF i \in targets THEN Put(i)
                                   ELSE w.address[i]],
                    !.ub = w.ub \/ ~(targets \subseteq DOMAIN w.address)]

---------------------------------------------------------------------------
(* Machine code: instruction emitters.  Each emitter's Buffer_write8 and     *)
(* Buffer_write32 calls are written as one Buffer_write_arr of their bytes.  *)

Buffer_mov_reg_imm32(w, dst, src) ==
  Buffer_write_arr(w, <<184 + dst>> \o Imm32(src))

Buffer_add_reg_imm32(w, dst, src) ==
  IF dst = kRax THEN Buffer_write_arr(w, <<5>> \o Imm32(src))
  ELSE Buffer_write_arr(w, <<129, 192 + dst>> \o Imm32(src))

\* a variant that emits the opcode of add for sub
Buffer_sub_reg_imm32_as_add(w, dst, src) ==
  IF dst = kRax THEN Buffer_write_arr(w, <<5>> \o Imm32(src))
  ELSE Buffer_write_arr(w, <<131, 232 + dst>> \o Imm32(src))

Buffer_sub_reg_imm32(w, dst, src) ==
  IF dst = kRax THEN Buffer_write_arr(w, <<45>> \o Imm32(src))
  ELSE Buffer_write_arr(w, <<131, 232 + dst>> \o Imm32(src))

\* the three [rsp+disp8] emitters take an int8_t offset and assert offset < 0
StackModRM(reg, offset) == 4 + (reg * 8) + (IF offset = 0 THEN 0 ELSE 64)

Buffer_add_reg_stack(w, dst, stack_index) ==
  LET offset == ToInt8(stack_index)
  IN IF ~(offset < 0) THEN Abort(w)
     ELSE Buffer_write_arr(w, <<72, 3, StackModRM(dst, offset), 36,
                                256 + offset>>)

\* a variant without the assert
Buffer_mov_reg_to_stack_unchecked(w, src, stack_index) ==
  Buffer_write_arr(w, <<72, 137, StackModRM(src, ToInt8(stack_index)), 36,
                        256 + ToInt8(stack_index)>>)

Buffer_mov_reg_to_stack(w, src, stack_index) ==
  LET offset == ToInt8(stack_index)
  IN IF ~(offset < 0) THEN Abort(w)
     ELSE Buffer_write_arr(w, <<72, 137, StackModRM(src, offset), 36,
                                256 + offset>>)

Buffer_mov_stack_to_reg(w, dst, stack_index) ==
  LET offset == ToInt8(stack_index)
  IN IF ~(offset < 0) THEN Abort(w)
     ELSE Buffer_write_arr(w, <<72, 139, StackModRM(dst, offset), 36,
                                256 + offset>>)

encode_disp(disp) == IF disp >= 0 THEN disp ELSE 256 + disp

\* a variant that drops the displacement
Buffer_mov_rax_to_reg_disp_zero(w, dst, disp) ==
  Buffer_write_arr(w, <<72, 137, 64 + dst, 0>>)

Buffer_mov_rax_to_reg_disp(w, dst, disp) ==
  Buffer_write_arr(w, <<72, 137, 64 + dst, encode_disp(ToInt8(disp))>>)

Buffer_mov_reg_disp_to_rax(w, dst, disp) ==
  Buffer_write_arr(w, <<72, 139, 64 + dst, encode_disp(ToInt8(disp))>>)

Buffer_mov_reg_reg(w, dst, src) ==
  Buffer_write_arr(w, <<72, 137, 192 + dst + (src * 8)>>)

\* a variant whose shift count is one short
Buffer_shl_reg_short(w, dst, bits) ==
  Buffer_write_arr(w, <<72, 193, 224 + dst, ToInt8(bits) - 1>>)

Buffer_shl_reg(w, dst, bits) ==
  IF ~(ToInt8(bits) >= 0 /\ ToInt8(bits) < 64) THEN Abort(w)
  ELSE Buffer_write_arr(w, <<72, 193, 224 + dst, ToInt8(bits)>>)

Buffer_or_reg_imm32(w, dst, value) ==
  IF dst = kRax THEN Buffer_write_arr(w, <<72, 13>> \o Imm32(value))
  ELSE Buffer_write_arr(w, <<72, 129, 200 + dst>> \o Imm32(value))

Buffer_cmp_reg_imm32(w, dst, value) ==
  IF dst = kRax THEN Buffer_write_arr(w, <<72, 61>> \o Imm32(value))
  ELSE Buffer_write_arr(w, <<72, 129, 248 + dst>> \o Imm32(value))

\* cond is always kEqual
Buffer_setcc_reg(w, dst) == Buffer_write_arr(w, <<15, 148, 192 + dst>>)

Buffer_je_imm32(w, disp) ==
  IF ~(disp > 0) THEN Abort(w)
  ELSE Buffer_write_arr(w, <<15, 132>> \o Imm32(disp))

Buffer_jmp_imm32(w, disp) ==
  IF ~(disp > 0) THEN Abort(w)
  ELSE Buffer_write_arr(w, <<233>> \o Imm32(disp))

\* encode_disp32 returns the same 32 bits as an unsigned value; Imm32 lays
\* out the two's complement bytes
\* a variant that does not subtract the length of the call instruction
Buffer_call_imm32_from_start(w, disp) ==
  Buffer_write_arr(w, <<232>> \o Imm32(disp))

Buffer_call_imm32(w, disp) == Buffer_write_arr(w, <<232>> \o Imm32(disp - 5))

Buffer_ret(w) == Buffer_write8(w, 195)

---------------------------------------------------------------------------
(* Env *)

\* an environment is the chain of EnvNodes, most recent binding first
Env_init(name, stack_index, next) ==
  <<[name |-> name, stack_index |-> stack_index]>> \o next

\* a variant that returns the oldest binding of the name
RECURSIVE Env_lookup_oldest(_, _)
Env_lookup_oldest(env, name) ==
  IF env = <<>> THEN [found |-> FALSE, stack_index |-> 0]
  ELSE LET older == Env_lookup_oldest(Tail(env), name)
       IN IF older.found THEN older
          ELSE IF Head(env).name = name
               THEN [found |-> TRUE, stack_index |-> Head(env).stack_index]
               ELSE older

RECURSIVE Env_lookup(_, _)
Env_lookup(env, name) ==
  IF env = <<>> THEN [found |-> FALSE, stack_index |-> 0]
  ELSE IF Head(env).name = name
       THEN [found |-> TRUE, stack_index |-> Head(env).stack_index]
  ELSE Env_lookup(Tail(env), name)

---------------------------------------------------------------------------
(* AST *)

nil == <<"kCons">>
AST_new_fixnum(fixnum) == <<"kFixnum", fixnum>>
AST_new_atom(atom) == <<"kAtom", atom>>
AST_new_cons(car, cdr) == <<"kCons", car, cdr>>

AST_is_atom(n) == n[1] = "kAtom"
AST_atom_equals_cstr(n, cstr) == n[2] = cstr
\* AST_car and AST_cdr assert a non-nil cons; every program of the model is
\* well formed, so the asserts never fire
AST_car(cons) == cons[2]
AST_cdr(cons) == cons[3]

operand1(args) == AST_car(args)
operand2(args) == AST_car(AST_cdr(args))
operand3(args) == AST_car(AST_cdr(AST_cdr(args)))

list1(e0) == AST_new_cons(e0, nil)
list2(e0, e1) == AST_new_cons(e0, list1(e1))
list3(e0, e1, e2) == AST_new_cons(e0, list2(e1, e2))
list4(e0, e1, e2, e3) == AST_new_cons(e0, list3(e1, e2, e3))
call1(fnname, arg) == list2(AST_new_atom(fnname), arg)

---------------------------------------------------------------------------
(* Compiler *)

CompilerContext_init(w, labels, locals) ==
  [writer |-> w, labels |-> labels, locals |-> locals]
CompilerContext_with_labels(ctx, labels) == [ctx EXCEPT !.labels = labels]
CompilerContext_with_locals(ctx, locals) == [ctx EXCEPT !.locals = locals]

\* the writer is shared through a pointer: every callee's writes are seen by
\* the caller, which is modelled by handing the writer back with the result
R(w, res) == [writer |-> w, result |-> res]
On(ctx, w) == [ctx EXCEPT !.writer = w]

\* the statements of a function body, each computed before the next is
\* looked at; the value is that of the last one
InOrder(statements) == statements[Len(statements)]

RECURSIVE AST_compile_expr(_, _, _)
RECURSIVE AST_compile_call(_, _, _, _)
RECURSIVE AST_compile_let(_, _, _, _)
RECURSIVE AST_compile_if(_, _, _, _, _)
RECURSIVE AST_compile_cons(_, _, _, _)
RECURSIVE AST_compile_code(_, _, _, _)
RECURSIVE AST_compile_labelcall(_, _, _, _)

AST_compile_let(ctx, bindings, body, stack_index) ==
  IF bindings = nil
  THEN R(AST_compile_expr(ctx, body, stack_index).writer, 0)
  ELSE LET first_binding == AST_car(bindings)
           name == AST_car(first_binding)
           expr == AST_car(AST_cdr(first_binding))
           w1 == AST_compile_expr(ctx, expr, stack_index).writer
           w2 == Buffer_mov_reg_to_stack(w1, kRax, stack_index)
           new_locals == Env_init(name[2], stack_index, ctx.locals)
           new_ctx == CompilerContext_with_locals(On(ctx, w2), new_locals)
       IN IF ~AST_is_atom(name) THEN R(Abort(ctx.writer), 0)
          ELSE InOrder(<<w1, w2,
                         AST_compile_let(new_ctx, AST_cdr(bindings), body,
                                         stack_index - kWordSize)>>)

\* a variant without the jump over the else branch
AST_compile_if_fallthrough(ctx, test, iftrue, iffalse, stack_index) ==
  LET w1 == AST_compile_expr(ctx, test, stack_index).writer
      w2 == Buffer_cmp_reg_imm32(w1, kRax, encodeImmediateBool(FALSE))
      w3 == Buffer_je_imm32(w2, 305419896)
      iffalse_pos == BufferWriter_get_pos(w3)
      w4 == AST_compile_expr(On(ctx, w3), iftrue, stack_index).writer
      w6 == BufferWriter_backpatch_displacement_imm32(w4, iffalse_pos)
  IN InOrder(<<w1, w2, w3, w4, w6,
               R(AST_compile_expr(On(ctx, w6), iffalse, stack_index).writer,
                 0)>>)

AST_compile_if(ctx, test, iftrue, iffalse, stack_index) ==
  LET w1 == AST_compile_expr(ctx, test, stack_index).writer
      w2 == Buffer_cmp_reg_imm32(w1, kRax, encodeImmediateBool(FALSE))
      w3 == Buffer_je_imm32(w2, 305419896)
      iffalse_pos == BufferWriter_get_pos(w3)
      w4 == AST_compile_expr(On(ctx, w3), iftrue, stack_index).writer
      w5 == Buffer_jmp_imm32(w4, 439041101)
      end_pos == BufferWriter_get_pos(w5)
      w6 == BufferWriter_backpatch_displacement_imm32(w5, iffalse_pos)
      w7 == AST_compile_expr(On(ctx, w6), iffalse, stack_index).writer
  IN InOrder(<<w1, w2, w3, w4, w5, w6, w7,
               R(BufferWriter_backpatch_displacement_imm32(w7, end_pos), 0)>>)

AST_compile_cons(ctx, car, cdr, stack_index) ==
  LET w1 == AST_compile_expr(ctx, car, stack_index - kWordSize).writer
      w2 == Buffer_mov_rax_to_reg_disp(w1, kRsi, 0)
      w3 == AST_compile_expr(On(ctx, w2), cdr, stack_index).writer
      w4 == Buffer_mov_rax_to_reg_disp(w3, kRsi, kWordSize)
      w5 == Buffer_mov_reg_reg(w4, kRax, kRsi)
      w6 == Buffer_or_reg_imm32(w5, kRax, 1)
  IN InOrder(<<w1, w2, w3, w4, w5, w6,
               R(Buffer_add_reg_imm32(w6, kRsi, 2 * kWordSize), 0)>>)

AST_compile_code(ctx, formals, body, stack_index) ==
  IF formals = nil
  THEN LET r == AST_compile_expr(ctx, body, stack_index)
       IN IF r.result # 0 THEN r ELSE R(Buffer_ret(r.writer), 0)
  ELSE LET name == AST_car(formals)
           new_locals == Env_init(name[2], stack_index, ctx.locals)
           new_ctx == CompilerContext_with_locals(ctx, new_locals)
       IN AST_compile_code(new_ctx, AST_cdr(formals), body,
                           stack_index - kWordSize)

AST_compile_labelcall(ctx, code_pos, args, stack_index) ==
  IF args[1] # "kCons" THEN R(Abort(ctx.writer), 0)
  ELSE IF args = nil
  THEN LET disp == code_pos - BufferWriter_get_pos(ctx.writer)
       IN R(Buffer_call_imm32(ctx.writer, disp), 0)
  ELSE LET arg == AST_car(args)
           r == AST_compile_expr(ctx, arg, stack_index)
           w2 == Buffer_mov_reg_to_stack(r.writer, kRax, stack_index)
       IN IF r.result # 0 THEN r
          ELSE InOrder(<<w2,
                         AST_compile_labelcall(On(ctx, w2), code_pos,
                                               AST_cdr(args),
                                               stack_index - kWordSize)>>)

\* primcalls that compile their one operand and then emit
CompilePrim1(ctx, args, stack_index) ==
  AST_compile_expr(ctx, operand1(args), stack_index).writer

AST_compile_call(ctx, fnexpr, args, stack_index) ==
  CASE ~AST_is_atom(fnexpr) -> R(Abort(ctx.writer), 0)
    [] AST_atom_equals_cstr(fnexpr, "add1") ->
         R(Buffer_add_reg_imm32(CompilePrim1(ctx, args, stack_index), kRax,
                                encodeImmediateFixnum(1)), 0)
    [] AST_atom_equals_cstr(fnexpr, "sub1") ->
         R(Buffer_sub_reg_imm32(CompilePrim1(ctx, args, stack_index), kRax,
                                encodeImmediateFixnum(1)), 0)
    [] AST_atom_equals_cstr(fnexpr, "integer->char") ->
         LET w1 == CompilePrim1(ctx, args, stack_index)
             w2 == Buffer_shl_reg(w1, kRax, kCharShift - kFixnumShift)
         IN InOrder(<<w1, w2, R(Buffer_or_reg_imm32(w2, kRax, kCharTag), 0)>>)
    [] AST_atom_equals_cstr(fnexpr, "zero?") ->
         LET w1 == CompilePrim1(ctx, args, stack_index)
             w2 == Buffer_cmp_reg_imm32(w1, kRax, 0)
             w3 == Buffer_mov_reg_imm32(w2, kRax, 0)
             w4 == Buffer_setcc_reg(w3, kAl)
             w5 == Buffer_shl_reg(w4, kRax, kBoolShift)
         IN InOrder(<<w1, w2, w3, w4, w5,
                      R(Buffer_or_reg_imm32(w5, kRax, kBoolTag), 0)>>)
    [] AST_atom_equals_cstr(fnexpr, "+") ->
         LET w1 == AST_compile_expr(ctx, operand2(args), stack_index).writer
             w2 == Buffer_mov_reg_to_stack(w1, kRax, stack_index)
             w3 == AST_compile_expr(On(ctx, w2), operand1(args),
                                    stack_index - kWordSize).writer
         IN InOrder(<<w1, w2, w3,
                      R(Buffer_add_reg_stack(w3, kRax, stack_index), 0)>>)
    [] AST_atom_equals_cstr(fnexpr, "let") ->
         AST_compile_let(ctx, operand1(args), operand2(args), stack_index)
    [] AST_atom_equals_cstr(fnexpr, "if") ->
         AST_compile_if(ctx, operand1(args), operand2(args), operand3(args),
                        stack_index)
    [] AST_atom_equals_cstr(fnexpr, "cons") ->
         AST_compile_cons(ctx, operand1(args), operand2(args), stack_index)
    [] AST_atom_equals_cstr(fnexpr, "car") ->
         R(Buffer_mov_reg_disp_to_rax(CompilePrim1(ctx, args, stack_index),
                                      kRax, -1), 0)
    [] AST_atom_equals_cstr(fnexpr, "cdr") ->
         R(Buffer_mov_reg_disp_to_rax(CompilePrim1(ctx, args, stack_index),
                                      kRax, kWordSize - 1), 0)
    [] AST_atom_equals_cstr(fnexpr, "code") ->
         AST_compile_code(ctx, operand1(args), operand2(args), -kWordSize)
    [] AST_atom_equals_cstr(fnexpr, "labelcall") ->
         LET label == operand1(args)
             found == Env_lookup(ctx.labels, label[2])
         IN IF ~AST_is_atom(label) THEN R(Abort(ctx.writer), 0)
            ELSE IF ~found.found THEN R(ctx.writer, -1)
            ELSE AST_compile_labelcall(ctx, found.stack_index, AST_cdr(args),
                                       stack_index)
    [] OTHER -> R(Abort(ctx.writer), 0)

AST_compile_expr(ctx, n, stack_index) ==
  CASE n[1] = "kFixnum" ->
         IF ~encodeImmediateFixnum_ok(n[2]) THEN R(Abort(ctx.writer), 0)
         ELSE R(Buffer_mov_reg_imm32(ctx.writer, kRax,
                                     encodeImmediateFixnum(n[2])), 0)
    [] n[1] = "kCons" ->
         AST_compile_call(ctx, AST_car(n), AST_cdr(n), stack_index)
    [] OTHER ->
         LET found == Env_lookup(ctx.locals, n[2])
         IN IF ~found.found THEN R(ctx.writer, -1)
            ELSE R(Buffer_mov_stack_to_reg(ctx.writer, kRax,
                                           found.stack_index), 0)

AST_compile_function(ctx, n) ==
  LET r == AST_compile_expr(ctx, n, -kWordSize)
  IN IF r.result # 0 THEN r ELSE R(Buffer_ret(r.writer), 0)

AST_compile_entry(ctx, n) ==
  AST_compile_function(On(ctx, Buffer_mov_reg_reg(ctx.writer, kRsi, kRdi)), n)

RECURSIVE AST_compile_labels(_, _, _, _, _)
AST_compile_labels(ctx, bindings, body, body_pos, stack_index) ==
  IF bindings = nil
  THEN AST_compile_entry(
         On(ctx, BufferWriter_backpatch_displacement_imm32(ctx.writer,
                                                           body_pos)), body)
  ELSE LET binding == AST_car(bindings)
           name == AST_car(binding)
           exp == AST_car(AST_cdr(binding))
           new_labels == Env_init(name[2], BufferWriter_get_pos(ctx.writer),
                                  ctx.labels)
           new_ctx == CompilerContext_with_labels(ctx, new_labels)
           r == AST_compile_expr(new_ctx, exp, stack_index)
       IN IF ~AST_is_atom(name) THEN R(Abort(ctx.writer), 0)
          ELSE IF r.result # 0 THEN r
          ELSE AST_compile_labels(On(new_ctx, r.writer), AST_cdr(bindings),
                                  body, body_pos, stack_index)

AST_compile_prog(ctx, prog) ==
  IF ~(prog[1] = "kCons" /\ prog # nil /\ AST_is_atom(AST_car(prog))
       /\ AST_atom_equals_cstr(AST_car(prog), "labels"))
  THEN R(Abort(ctx.writer), 0)
  ELSE LET args == AST_cdr(prog)
           w1 == Buffer_jmp_imm32(ctx.writer, 305419896)
           body_pos == BufferWriter_get_pos(w1)
           body == operand2(args)
       IN AST_compile_labels(On(ctx, w1), operand1(args), body, body_pos,
                             -kWordSize)

---------------------------------------------------------------------------
(* Execution of the buffer: Testing_call_entry calls the mapped bytes.     *)
(* The interpreter decodes exactly the encodings the emitters above write  *)
(* and gives each its x86-64 meaning; any other byte sequence is a fault.  *)

\* where mmap placed the code
CodeBase == <<0, 0, 0, 64, 85, 127, 0, 0>>

WordOfNat(n) == <<n % 256, (n \div 256) % 256, (n \div 65536) % 256,
                  (n \div 16777216) % 256, 0, 0, 0, 0>>

CodeAddr(off) == Add64(CodeBase, WordOfNat(off))

\* a word as an offset from base: -1 unless 0 <= word - base < limit
OffsetIn(word, base, limit) ==
  LET d == Sub64(word, base)
      v == d[1] + (256 * d[2])
  IN IF SubSeq(d, 3, 8) = <<0, 0, 0, 0, 0, 0>> /\ v < limit THEN v ELSE -1

\* the values an uninitialised register or memory word may hold
Garbage == {ZeroWord, <<239, 190, 173, 222, 0, 0, 0, 0>>}

\* the machine state as a record
Machine ==
  [phase |-> phase, rip |-> rip, rsp |-> rsp, rax |-> rax, rsi |-> rsi,
   rdi |-> rdi, zf |-> zf, stack |-> stack, mem |-> mem]

Fault(m) == [m EXCEPT !.phase = "fault"]

\* stack slot at rsp + disp8: g stands for the content of a slot never
\* written, which then keeps that content
StackKey(m, disp) == m.rsp + SignedByte(disp)
StackOk(m, disp) == StackKey(m, disp) % kWordSize = 0 /\ StackKey(m, disp) < 0
StackGet(m, disp, g) ==
  IF StackKey(m, disp) \in DOMAIN m.stack THEN m.stack[StackKey(m, disp)] ELSE g
StackPut(st, key, word) ==
  [k \in (DOMAIN st) \cup {key} |-> IF k = key THEN word ELSE st[k]]

\* heap word at a 64-bit address: its byte offset in the test heap, or -1
HeapKey(base, addr) ==
  LET off == OffsetIn(addr, base, kHeapWords * kWordSize)
  IN IF off >= 0 /\ off % kWordSize = 0 THEN off ELSE -1

Disp(word, disp) == Add64(word, SignExt64(SignedByte(disp)))

Exec(m, w, base, g) ==
  LET B(i) == IF m.rip + i \in DOMAIN w.address THEN w.address[m.rip + i] ELSE -1
      imm1 == <<B(1), B(2), B(3), B(4)>>
      imm2 == <<B(2), B(3), B(4), B(5)>>
      Go(n, mm) == [mm EXCEPT !.rip = m.rip + n]
      Jump(n, rel, mm) ==
        IF m.rip + n + rel \in DOMAIN w.address
        THEN [mm EXCEPT !.rip = m.rip + n + rel] ELSE Fault(mm)
      SetRax(n, word) == Go(n, [m EXCEPT !.rax = word])
      Alu(n, word) == Go(n, [m EXCEPT !.rax = word, !.zf = (word = ZeroWord)])
      Reg(r) == CASE r = kRax -> m.rax [] r = kRsi -> m.rsi [] OTHER -> m.rdi
  IN
  CASE B(0) = 184 -> SetRax(5, ZeroExt64(imm1))                   \* mov eax, imm32
    [] B(0) = 5 -> Alu(5, Add32(m.rax, ZeroExt64(imm1)))             \* add eax, imm32
    [] B(0) = 45 -> Alu(5, Sub32(m.rax, ZeroExt64(imm1)))            \* sub eax, imm32
    [] B(0) = 72 /\ B(1) = 193 /\ B(2) = 224 /\ B(3) \in 0..63 ->   \* shl rax, imm8
         IF B(3) = 0 THEN Go(4, m) ELSE Alu(4, Shl64(m.rax, B(3)))
    [] B(0) = 72 /\ B(1) = 13 ->                                    \* or rax, imm32
         Alu(6, Or64(m.rax, SignExt64(Int32Of(imm2))))
    [] B(0) = 72 /\ B(1) = 61 ->                                    \* cmp rax, imm32
         Go(6, [m EXCEPT !.zf = (m.rax = SignExt64(Int32Of(imm2)))])
    [] B(0) = 72 /\ B(1) = 137 /\ B(2) = 68 /\ B(3) = 36 ->         \* mov [rsp+d], rax
         IF ~StackOk(m, B(4)) THEN Fault(m)
         ELSE Go(5, [m EXCEPT !.stack = StackPut(m.stack, StackKey(m, B(4)), m.rax)])
    [] B(0) = 72 /\ B(1) = 139 /\ B(2) = 68 /\ B(3) = 36 ->         \* mov rax, [rsp+d]
         IF ~StackOk(m, B(4)) THEN Fault(m)
         ELSE Go(5, [m EXCEPT !.rax = StackGet(m, B(4), g),
                              !.stack = StackPut(m.stack, StackKey(m, B(4)),
                                                 StackGet(m, B(4), g))])
    [] B(0) = 72 /\ B(1) = 3 /\ B(2) = 68 /\ B(3) = 36 ->           \* add rax, [rsp+d]
         IF ~StackOk(m, B(4)) THEN Fault(m)
         ELSE Go(5, [m EXCEPT !.rax = Add64(m.rax, StackGet(m, B(4), g)),
                              !.zf = (Add64(m.rax, StackGet(m, B(4), g)) = ZeroWord),
                              !.stack = StackPut(m.stack, StackKey(m, B(4)),
                                                 StackGet(m, B(4), g))])
    [] B(0) = 72 /\ B(1) = 137 /\ B(2) = 70 ->                      \* mov [rsi+d], rax
         LET key == HeapKey(base, Disp(m.rsi, B(3)))
         IN IF key < 0 THEN Fault(m)
            ELSE Go(4, [m EXCEPT !.mem = StackPut(m.mem, key, m.rax)])
    [] B(0) = 72 /\ B(1) = 139 /\ B(2) = 64 ->                      \* mov rax, [rax+d]
         LET key == HeapKey(base, Disp(m.rax, B(3)))
             word == IF key \in DOMAIN m.mem THEN m.mem[key] ELSE g
         IN IF key < 0 THEN Fault(m)
            ELSE Go(4, [m EXCEPT !.rax = word, !.mem = StackPut(m.mem, key, word)])
    [] B(0) = 72 /\ B(1) = 137 /\ B(2) \in {240, 248} ->            \* mov rax, rsi|rdi
         SetRax(3, Reg((B(2) - 192) \div 8))
    [] B(0) = 72 /\ B(1) = 137 /\ B(2) = 254 ->                     \* mov rsi, rdi
         Go(3, [m EXCEPT !.rsi = m.rdi])
    [] B(0) = 129 /\ B(1) = 198 ->                                  \* add esi, imm32
         Go(6, [m EXCEPT !.rsi = Add32(m.rsi, ZeroExt64(imm2)),
                         !.zf = (Add32(m.rsi, ZeroExt64(imm2)) = ZeroWord)])
    [] B(0) = 15 /\ B(1) = 148 /\ B(2) = 192 ->                     \* sete al
         SetRax(3, [m.rax EXCEPT ![1] = IF m.zf THEN 1 ELSE 0])
    [] B(0) = 15 /\ B(1) = 132 ->                                   \* je rel32
         Jump(6, IF m.zf THEN Int32Of(imm2) ELSE 0, m)
    [] B(0) = 233 -> Jump(5, Int32Of(imm1), m)                      \* jmp rel32
    [] B(0) = 232 ->                                                \* call rel32
         Jump(5, Int32Of(imm1),
              [m EXCEPT !.rsp = m.rsp - kWordSize,
                        !.stack = StackPut(m.stack, m.rsp - kWordSize,
                                           CodeAddr(m.rip + 5))])
    [] B(0) = 195 ->                                                \* ret
         IF m.rsp = 0 THEN [m EXCEPT !.phase = "done"]
         ELSE LET word == IF m.rsp \in DOMAIN m.stack THEN m.stack[m.rsp] ELSE g
                  off == OffsetIn(word, CodeBase, w.len)
              IN IF off < 0 \/ m.rsp > 0 THEN Fault(m)
                 ELSE [m EXCEPT !.rip = off, !.rsp = m.rsp + kWordSize,
                                !.stack = StackPut(m.stack, m.rsp, word)]
    [] OTHER -> Fault(m)

---------------------------------------------------------------------------
(* The programs the test driver compiles and runs *)

Fixnums == (-MaxFix)..MaxFix

F(n) == AST_new_fixnum(n)
A(name) == AST_new_atom(name)
Plus(a, b) == list3(A("+"), a, b)
Cons(a, b) == list3(A("cons"), a, b)
If(t, a, b) == list4(A("if"), t, a, b)
Let1(x, e, body) == list3(A("let"), list1(list2(A(x), e)), body)
Let2(x, e, y, f, body) ==
  list3(A("let"), list2(list2(A(x), e), list2(A(y), f)), body)
Code0(body) == list3(A("code"), nil, body)
Code1(x, body) == list3(A("code"), list1(A(x)), body)
Code2(x, y, body) == list3(A("code"), list2(A(x), A(y)), body)
Labelcall0(l) == list2(A("labelcall"), A(l))
Labelcall1(l, a) == list3(A("labelcall"), A(l), a)
Labelcall2(l, a, b) == list4(A("labelcall"), A(l), a, b)
Labels(bindings, body) == list3(A("labels"), bindings, body)

\* every place one expression can sit directly inside another
Around(e) ==
  {call1("add1", e), call1("sub1", e), call1("zero?", e),
   call1("integer->char", e), call1("car", e), call1("cdr", e),
   Plus(e, F(1)), Plus(F(1), e), Cons(e, F(1)), Cons(F(1), e),
   Let1("x", e, F(1)), Let1("x", F(1), e),
   If(e, F(1), F(2)), If(F(1), e, F(2)), If(F(1), F(2), e)}

\* an unbound atom alone, one level down and two levels down
UnboundNodes ==
  {A("foo")} \cup Around(A("foo"))
  \cup UNION {Around(e) : e \in {call1("add1", A("foo")), Plus(F(1), A("foo")),
                                  Let1("x", F(1), A("foo")),
                                  If(F(1), A("foo"), F(2))}}

IdBinding == list2(A("id"), Code1("x", A("x")))
IdProg(n) == Labels(list1(IdBinding), Labelcall1("id", F(n)))

AddBinding ==
  list2(A("add"), Code2("x", "y", Plus(Labelcall1("id", A("x")), A("y"))))
AddProg == Labels(list2(IdBinding, AddBinding), Labelcall2("add", F(1), F(2)))

\* a label of two parameters that returns the second
SndProg ==
  Labels(list1(list2(A("snd"), Code2("x", "y", A("y")))),
         Labelcall2("snd", F(1), F(2)))

ConstBinding(l, k) == list2(A(l), Code0(F(k)))

\* f, whose body is e, bound before the label g that e may name
ForwardProg(e) ==
  Labels(list2(list2(A("f"), Code0(e)), ConstBinding("g", 2)), F(1))

\* a label whose code calls itself, and is not called
SelfProg == Labels(list1(list2(A("f"), Code0(Labelcall0("f")))), F(1))

\* code forms handed to AST_compile_function: alone, inside a let and
\* inside another code form
CodeNodes ==
  {Code1("x", A("x")), Code2("x", "y", A("y")), Code1("x", A("z")),
   Let1("z", F(1), Code1("x", A("x"))),
   Code1("z", Code1("x", A("z")))}


\* labelcalls of a label that no labels form binds
NoLabel == Labelcall0("nonexistent-label")
UnboundLabelNodes ==
  {NoLabel} \cup Around(NoLabel) \cup {call1("add1", call1("sub1", NoLabel))}
UnboundLabelProgs ==
  {Labels(nil, NoLabel),
   Labels(list1(IdBinding), Labelcall1("id", NoLabel)),
   Labels(list1(list2(A("f"), Code0(NoLabel))), F(1)),
   Labels(list1(list2(A("f"), Code0(call1("add1", NoLabel)))), Labelcall0("f")),
   Labels(list1(IdBinding), call1("add1", NoLabel))}

\* labelcalls made while a slot of the caller is live: the second operand of
\* a +, and a let binding
PendingAcrossCallProg ==
  Labels(list2(ConstBinding("f", 1), ConstBinding("g", 2)),
         Plus(Labelcall0("f"), Labelcall0("g")))
LocalAcrossCallProg ==
  Labels(list1(ConstBinding("f", 5)),
         Let1("a", F(1), Plus(A("a"), Labelcall0("f"))))

LabelsProgs ==
  {Labels(nil, F(5)), Labels(nil, Plus(F(1), F(2))),
   Labels(list1(ConstBinding("const", 6)), F(5)),
   Labels(list1(ConstBinding("const", 5)), Labelcall0("const")),
   Labels(list2(ConstBinding("f", 1), ConstBinding("g", 2)), Labelcall0("g")),
   Labels(list2(ConstBinding("f", 1), ConstBinding("g", 2)),
          Plus(Labelcall0("f"), Labelcall0("g"))),
   Labels(list2(ConstBinding("f", 1),
                list2(A("g"), Code0(call1("add1", Labelcall0("f"))))),
          Labelcall0("g")),
   AddProg}

ConsNodes ==
  UNION {{Cons(F(a), F(b)), call1("car", Cons(F(a), F(b))),
          call1("cdr", Cons(F(a), F(b)))} : a \in Fixnums, b \in Fixnums}

\* two pairs: the inner one as the cdr and as the car of the outer one
NestedConsNodes ==
  {Cons(F(1), Cons(F(2), F(3))), Cons(Cons(F(1), F(2)), F(3))}

PlusNodes ==
  UNION {{Plus(F(a), F(b))} : a \in Fixnums, b \in Fixnums}
  \cup UNION {{Plus(F(a), Plus(F(b), F(c))), Plus(Plus(F(a), F(b)), F(c))} :
                a \in Fixnums, b \in Fixnums, c \in Fixnums}

\* fixnums at the ends of the signed 30-bit range as well
EdgeFixnums == Fixnums \cup {536870910, -536870911}
LiteralNodes == {F(n) : n \in EdgeFixnums}

\* literals around 2^29, 2^30 and the bounds of the encoder's asserts
WideFixnums ==
  {536870911, 536870912, -536870912, -536870913, 1073741824, -1073741824,
   2147483646, 2147483647, -2147483647, MinInt32}
WideLiteralNodes == {F(n) : n \in WideFixnums}
Add1Nodes ==
  UNION {{call1("add1", F(n)), call1("sub1", F(n)),
          call1("sub1", call1("add1", F(n))),
          call1("add1", call1("sub1", F(n)))} : n \in EdgeFixnums}

\* the ASCII codes, as integer->char operands
CharCodes == 0..127
CharNodes == {call1("integer->char", F(n)) : n \in CharCodes}

IfTests == {call1("zero?", F(0)), call1("zero?", F(1)), F(0), F(1), nil}
IfBranches == {F(1), F(2), Cons(F(1), F(2)), Cons(F(3), F(4))}
IfNodes == {If(t, a, b) : t \in IfTests \ {nil}, a \in IfBranches, b \in IfBranches}

LetNodes ==
  UNION {{Let1("x", F(a), A("x")),
          Let2("x", F(a), "y", call1("add1", A("x")), Cons(A("x"), A("y"))),
          Let1("x", F(a), Let1("x", F(b), A("x"))),
          Let1("x", F(a), Cons(A("x"), Let1("x", F(b), A("x")))),
          Let1("x", F(a), Cons(Let1("x", F(b), A("x")), A("x"))),
          Let1("x", F(a), Let1("y", Let1("x", F(b), A("x")), Cons(A("x"), A("y"))))}
         : a \in Fixnums, b \in Fixnums}

\* test bodies call AST_compile_function, AST_compile_entry or AST_compile_prog
\* car of a fixnum, and an if inside the else branch of an if
RunNodes ==
  {call1("car", F(1)),
   If(call1("zero?", F(1)), F(1), If(F(0), F(2), F(1)))}

\* a code body that binds a local of its own while a let binding made outside
\* the code form is in scope
OuterLocalNode == Let1("a", F(1), Code0(Let1("c", F(3), A("a"))))

TestCases ==
  [driver : {"function"}, node : UnboundNodes \cup UnboundLabelNodes
                                  \cup PlusNodes \cup LiteralNodes
                                  \cup WideLiteralNodes \cup CodeNodes
                                  \cup Add1Nodes \cup CharNodes]
  \cup [driver : {"entry"}, node : {A("foo"), call1("add1", A("foo")),
                                    Cons(F(1), A("foo"))}
                                   \cup {OuterLocalNode} \cup RunNodes
                                   \cup ConsNodes \cup NestedConsNodes
                                   \cup IfNodes \cup LetNodes]
  \cup [driver : {"prog"}, node : {Labels(nil, A("foo")),
                                   Labels(nil, call1("add1", A("foo")))}
                                  \cup {IdProg(n) : n \in Fixnums} \cup {SndProg}
                                  \cup {ForwardProg(Labelcall0("g")),
                                        ForwardProg(call1("add1", Labelcall0("g"))),
                                        ForwardProg(Labelcall0("f")), SelfProg}
                                  \cup {LocalAcrossCallProg}
                                  \cup UnboundLabelProgs \cup LabelsProgs]

\* heap addresses malloc may return: below and above 2^32
HeapBases == {<<16, 32, 96, 0, 0, 0, 0, 0>>, <<16, 96, 117, 85, 85, 85, 0, 0>>}

---------------------------------------------------------------------------
(* The test driver: run_test and a test body *)

\* longest run of the compiled code that is followed
MaxSteps == 40

\* what mprotect may return
MprotectResults == {0, -1}

\* a variant without the assert on the buffer state
Testing_call_entry_any_state(w) ==
  IF w.prot = "unmapped" THEN "aborted"
  ELSE IF w.prot # "x" THEN "segv"
  ELSE "running"

\* Testing_call_entry up to the call: the asserts stop the process
\* ("aborted") when the address is NULL or the state is not kExecutable;
\* otherwise control enters the buffer ("running"), which the hardware
\* refuses ("segv") when the page is not executable
Testing_call_entry(w) ==
  IF w.prot = "unmapped" \/ w.state # "kExecutable" THEN "aborted"
  ELSE IF w.prot # "x" THEN "segv"
  ELSE "running"

Init ==
  /\ phase = "start"
  /\ \E tc \in TestCases : driver = tc.driver /\ node = tc.node
  /\ writer = BufferWriter_init(kBufferLen)
  /\ result = 0
  /\ heap \in HeapBases
  /\ rip = 0 /\ rsp = 0
  /\ rax = ZeroWord /\ rsi = ZeroWord /\ rdi = ZeroWord /\ zf = FALSE
  /\ stack = <<>> /\ mem = <<>> /\ trace = <<>>

Ctx0 == CompilerContext_init(writer, <<>>, <<>>)

Driver(ctx, d, n) ==
  CASE d = "function" -> AST_compile_function(ctx, n)
    [] d = "entry" -> AST_compile_entry(ctx, n)
    [] OTHER -> AST_compile_prog(ctx, n)

\* the test body compiles; a failed assert ends the process, a non-zero result
\* ends the test
Compile ==
  /\ phase = "start"
  /\ LET r == Driver(Ctx0, driver, node)
     IN /\ writer' = r.writer
        /\ result' = r.result
        /\ phase' = IF r.writer.abort THEN "aborted"
                    ELSE IF r.result # 0 THEN "failed" ELSE "compiled"
  /\ UNCHANGED <<driver, node, heap, rip, rsp, rax, rsi, rdi, zf, stack, mem,
                 trace>>

\* the test body ignores what Buffer_make_executable returns
MakeExecutable ==
  /\ phase = "compiled"
  /\ \E mprotect_result \in MprotectResults :
       writer' = Buffer_make_executable(writer, mprotect_result)
  /\ phase' = "executable"
  /\ UNCHANGED <<driver, node, result, heap, rip, rsp, rax, rsi, rdi, zf,
                 stack, mem, trace>>

\* Testing_call_entry: control enters the buffer at offset 0 with the heap
\* in rdi; [rsp] holds the return address into the test
CallEntry ==
  /\ phase = "executable"
  /\ phase' = Testing_call_entry(writer)
  /\ rip' = 0 /\ rsp' = 0
  /\ rdi' = heap
  /\ rax' \in Garbage /\ rsi' \in Garbage
  /\ zf' = FALSE /\ stack' = <<>> /\ mem' = <<>> /\ trace' = <<>>
  /\ UNCHANGED <<driver, node, writer, result, heap>>

\* one instruction of the compiled code
Step ==
  /\ phase = "running"
  /\ Len(trace) < MaxSteps
  /\ \E g \in Garbage :
       LET m == Exec(Machine, writer, heap, g)
       IN /\ phase' = m.phase /\ rip' = m.rip /\ rsp' = m.rsp
          /\ rax' = m.rax /\ rsi' = m.rsi /\ rdi' = m.rdi /\ zf' = m.zf
          /\ stack' = m.stack /\ mem' = m.mem
  /\ trace' = Append(trace, rip)
  /\ UNCHANGED <<driver, node, writer, result, heap>>

Next == Compile \/ MakeExecutable \/ CallEntry \/ Step

Spec == Init /\ [][Next]_vars

---------------------------------------------------------------------------
(* The buffer on its own: Buffer_init, then any sequence of calls of the     *)
(* writer, the emitters, Buffer_make_executable, Buffer_deinit and           *)
(* Testing_call_entry.  driver is the function called last, node its         *)
(* arguments, result what it returned.                                       *)

\* capacity of the buffer the calls work on
BufCap == 6

\* where the process is after a call on w
After(w) == IF w.abort THEN "aborted" ELSE IF w.segv THEN "segv" ELSE "ready"

BufInit ==
  /\ \E mapped \in BOOLEAN : writer = Buffer_init(BufCap, mapped)
  /\ phase = After(writer)
  /\ driver = "Buffer_init" /\ node = <<BufCap>>
  /\ result = 0
  /\ heap = ZeroWord
  /\ rip = 0 /\ rsp = 0
  /\ rax = ZeroWord /\ rsi = ZeroWord /\ rdi = ZeroWord /\ zf = FALSE
  /\ stack = <<>> /\ mem = <<>> /\ trace = <<>>

\* a call fn(args) that leaves the writer as w and returns res
BufCall(fn, args, w, res) ==
  /\ phase = "ready"
  /\ driver' = fn /\ node' = args
  /\ writer' = w
  /\ result' = res
  /\ phase' = After(w)
  /\ UNCHANGED <<heap, rip, rsp, rax, rsi, rdi, zf, stack, mem, trace>>

\* Buffer_at_put and the back-patch as the compiler calls them: on a byte
\* already written, and on the four bytes before a position the cursor has
\* been at
BufWrite ==
  \/ BufCall("Buffer_write8", <<195>>, Buffer_write8(writer, 195), result)
  \/ BufCall("Buffer_write32", <<-2>>, Buffer_write32(writer, -2), result)
  \/ BufCall("Buffer_write_arr", <<72, 137, 254>>,
             Buffer_write_arr(writer, <<72, 137, 254>>), result)
  \/ \E pos \in {0, writer.pos - 1} \cap DOMAIN writer.address :
       BufCall("Buffer_at_put", <<pos, 204>>,
               Buffer_at_put(writer, pos, 204), result)
  \/ \E pos_after_jump \in 4..writer.pos :
       BufCall("BufferWriter_backpatch_displacement_imm32",
               <<pos_after_jump>>,
               BufferWriter_backpatch_displacement_imm32(writer,
                                                         pos_after_jump),
               result)

\* stack indexes an int passes to the int8_t offset of the stack-slot
\* emitters: inside the range of int8_t, and below it
StackIndexes == {-8, -128, -136, -256, -264, -384}

BufEmit ==
  \/ \E dst \in kRax..kRdi, src \in {16, -1, 305419896} :
       \/ BufCall("Buffer_add_reg_imm32", <<dst, src>>,
                  Buffer_add_reg_imm32(writer, dst, src), result)
       \/ BufCall("Buffer_sub_reg_imm32", <<dst, src>>,
                  Buffer_sub_reg_imm32(writer, dst, src), result)
  \/ \E reg \in {kRax, kRsi}, stack_index \in StackIndexes :
       \/ BufCall("Buffer_mov_reg_to_stack", <<reg, stack_index>>,
                  Buffer_mov_reg_to_stack(writer, reg, stack_index), result)
       \/ BufCall("Buffer_mov_stack_to_reg", <<reg, stack_index>>,
                  Buffer_mov_stack_to_reg(writer, reg, stack_index), result)
       \/ BufCall("Buffer_add_reg_stack", <<reg, stack_index>>,
                  Buffer_add_reg_stack(writer, reg, stack_index), result)

\* mprotect of an unmapped address fails
BufMakeExecutable ==
  \E mprotect_result \in IF writer.prot = "unmapped" THEN {-1}
                          ELSE MprotectResults :
    BufCall("Buffer_make_executable", <<mprotect_result>>,
            Buffer_make_executable(writer, mprotect_result), mprotect_result)

BufDeinit ==
  BufCall("Buffer_deinit", <<>>, Buffer_deinit(writer), result)

\* Testing_call_entry: what the called bytes do is the subject of Spec
BufCallEntry ==
  /\ phase = "ready"
  /\ driver' = "Testing_call_entry" /\ node' = <<>>
  /\ phase' = Testing_call_entry(writer)
  /\ UNCHANGED <<writer, result, heap, rip, rsp, rax, rsi, rdi, zf, stack, mem,
                 trace>>

BufNext ==
  \/ BufWrite \/ BufEmit
  \/ BufMakeExecutable \/ BufDeinit \/ BufCallEntry

BufferSpec == BufInit /\ [][BufNext]_vars

---------------------------------------------------------------------------
(* Reader.  A C string is the sequence of its characters, each a string of *)
(* one character; the byte at and after its end is NUL.  A read returns    *)
(* the node, the cursor, and whether an assert stopped the process         *)
(* ("abort") or a store left the name buffer ("overrun").                  *)

NUL == ""
CharAt(input, pos) == IF pos < Len(input) THEN input[pos + 1] ELSE NUL

Digits == <<"0", "1", "2", "3", "4", "5", "6", "7", "8", "9">>
isdigit(c) == \E d \in 1..Len(Digits) : Digits[d] = c
DigitValue(c) == (CHOOSE d \in 1..Len(Digits) : Digits[d] = c) - 1
isalpha(c) ==
  c \in {"a", "b", "c", "d", "e", "f", "g", "h", "i", "j", "k", "l",
       "m", "n", "o", "p", "q", "r", "s", "t", "u", "v", "w", "x",
       "y", "z", "A", "B", "C", "D", "E", "F", "G", "H", "I", "J",
       "K", "L", "M", "N", "O", "P", "Q", "R", "S", "T", "U", "V",
       "W", "X", "Y", "Z"}
isspace(c) == c \in {" ", "\t", "\n", "\r", "\f"}

\* what Reader_read_rec returns for a character that starts no node
NULL == <<"NULL">>

Rd(n, pos, fault) == [node |-> n, pos |-> pos, fault |-> fault]

\* value is the local of the loop; the digits of the model's inputs stay far
\* below the range of int
RECURSIVE Reader_read_number(_, _, _)
Reader_read_number(input, pos, value) ==
  LET c == CharAt(input, pos)
  IN IF isdigit(c)
     THEN Reader_read_number(input, pos + 1, (value * 10) + DigitValue(c))
     ELSE Rd(AST_new_fixnum(value), pos, "none")

ATOM_MAX == 32

isatomchar(c) == isalpha(c) \/ c = "+" \/ c = "-"

\* char buf[ATOM_MAX + 1], followed by the byte after it; nothing is stored
\* in it yet
NameBuf == [i \in 0..(ATOM_MAX + 1) |-> "?"]

\* strdup: the characters of the buffer from i up to the first NUL
RECURSIVE strdup(_, _)
strdup(buf, i) ==
  IF i \notin DOMAIN buf \/ buf[i] = NUL THEN ""
  ELSE buf[i] \o strdup(buf, i + 1)

\* the end of Reader_read_atom: the terminator is stored and the name copied
AtomRead(buf, length, pos) ==
  LET terminated == [buf EXCEPT ![length] = NUL]
  IN Rd(AST_new_atom(strdup(terminated, 0)), pos,
        IF terminated[ATOM_MAX + 1] # NameBuf[ATOM_MAX + 1] THEN "overrun"
        ELSE "none")

\* a variant whose loop takes one character more
RECURSIVE Reader_read_atom_one_more(_, _, _, _)
Reader_read_atom_one_more(input, pos, buf, length) ==
  IF ~(length < ATOM_MAX + 1) THEN AtomRead(buf, length, pos)
  ELSE LET stored == [buf EXCEPT ![length] = CharAt(input, pos)]
       IN IF isatomchar(stored[length])
          THEN Reader_read_atom_one_more(input, pos + 1, stored, length + 1)
          ELSE AtomRead(stored, length, pos)

\* buf and length are the locals of the loop; the character is stored in the
\* buffer before it is tested, and only when length < ATOM_MAX
RECURSIVE Reader_read_atom(_, _, _, _)
Reader_read_atom(input, pos, buf, length) ==
  IF ~(length < ATOM_MAX) THEN AtomRead(buf, length, pos)
  ELSE LET stored == [buf EXCEPT ![length] = CharAt(input, pos)]
       IN IF isatomchar(stored[length])
          THEN Reader_read_atom(input, pos + 1, stored, length + 1)
          ELSE AtomRead(stored, length, pos)

\* the loop of Reader_read_rec over white space
RECURSIVE SkipSpace(_, _)
SkipSpace(input, pos) ==
  IF isspace(CharAt(input, pos)) THEN SkipSpace(input, pos + 1) ELSE pos

RECURSIVE Reader_read_rec(_, _)
RECURSIVE Reader_read_list(_, _)

Reader_read_list(input, pos) ==
  IF CharAt(input, pos) = ")" THEN Rd(nil, pos + 1, "none")
  ELSE LET car == Reader_read_rec(input, pos)
           cdr == Reader_read_list(input, car.pos)
       IN IF car.fault # "none" THEN car
          ELSE IF car.node = NULL THEN Rd(NULL, car.pos, "abort")
          ELSE IF cdr.fault # "none" THEN cdr
          ELSE Rd(AST_new_cons(car.node, cdr.node), cdr.pos, "none")

Reader_read_rec(input, pos) ==
  LET start == SkipSpace(input, pos)
      c == CharAt(input, start)
  IN IF isdigit(c) THEN Reader_read_number(input, start, 0)
     ELSE IF isatomchar(c) THEN Reader_read_atom(input, start, NameBuf, 0)
     ELSE IF c = "(" THEN Reader_read_list(input, start + 1)
     ELSE Rd(NULL, start, "none")

Reader_read(input) == Reader_read_rec(input, 0)

---------------------------------------------------------------------------
(* ReaderSpec: Reader_read_atom on a run of atom characters, and           *)
(* Run_from_cstr on the text of a call.  In the phase "input" node is the   *)
(* text; after Reader_read_atom result is what it returned; after the read  *)
(* of Run_from_cstr node is the node read and the test goes on as in Spec.  *)

\* longest run of atom characters in an input
MaxRun == 34

AtomChars == <<"a", "Z", "+", "q", "-", "B", "z">>
AfterAtom == {<<>>, <<" ", "x">>, <<")">>, <<"1", "a">>, <<"?">>, <<"(">>}

\* m atom characters, the first of them AtomChars[k + 1]
Run(m, k) == [i \in 1..m |-> AtomChars[((i + k - 1) % Len(AtomChars)) + 1]]

AtomTexts == {Run(m, k) \o t : m \in 0..MaxRun, k \in {0, 3}, t \in AfterAtom}

\* one call of every form of the language, and the node it is the text of
FormCalls ==
  {[text |-> <<"(", "a", "d", "d", "1", " ", "5", ")">>,
    node |-> call1("add1", F(5))],
   [text |-> <<"(", "s", "u", "b", "1", " ", "5", ")">>,
    node |-> call1("sub1", F(5))],
   [text |-> <<"(", "i", "n", "t", "e", "g", "e", "r", "-", ">", "c", "h", "a",
               "r", " ", "6", "5", ")">>,
    node |-> call1("integer->char", F(65))],
   [text |-> <<"(", "z", "e", "r", "o", "?", " ", "0", ")">>,
    node |-> call1("zero?", F(0))],
   [text |-> <<"(", "+", " ", "1", " ", "2", ")">>,
    node |-> Plus(F(1), F(2))],
   [text |-> <<"(", "l", "e", "t", " ", "(", "(", "x", " ", "1", ")", ")", " ", "x", ")">>,
    node |-> Let1("x", F(1), A("x"))],
   [text |-> <<"(", "i", "f", " ", "1", " ", "2", " ", "3", ")">>,
    node |-> list4(A("if"), F(1), F(2), F(3))],
   [text |-> <<"(", "c", "o", "n", "s", " ", "1", " ", "2", ")">>,
    node |-> Cons(F(1), F(2))],
   [text |-> <<"(", "c", "a", "r", " ", "(", "c", "o", "n", "s", " ", "1", " ", "2", ")", ")">>,
    node |-> call1("car", Cons(F(1), F(2)))],
   [text |-> <<"(", "c", "d", "r", " ", "(", "c", "o", "n", "s", " ", "1", " ", "2", ")", ")">>,
    node |-> call1("cdr", Cons(F(1), F(2)))],
   [text |-> <<"(", "c", "o", "d", "e", " ", "(", ")", " ", "5", ")">>,
    node |-> Code0(F(5))],
   [text |-> <<"(", "l", "a", "b", "e", "l", "s", " ", "(", ")", " ", "5", ")">>,
    node |-> Labels(nil, F(5))],
   [text |-> <<"(", "l", "a", "b", "e", "l", "c", "a", "l", "l", " ", "f", ")">>,
    node |-> Labelcall0("f")]}

RunTexts ==
  {fc.text : fc \in FormCalls}
  \cup {<<"h", "e", "l", "l", "o">>, <<"1", "2", "3", "4">>,
        <<" ", " ", "\t", " ", "\n", " ", "1", "2", "3", "4">>,
        <<"(", "1", " ", "2", " ", "3", ")">>, <<"?">>, <<"(", "a">>}

ReaderInit ==
  /\ phase = "input"
  /\ \/ driver = "Reader_read_atom" /\ node \in AtomTexts
     \/ driver = "Run_from_cstr" /\ node \in RunTexts
  /\ writer = BufferWriter_init(kBufferLen)
  /\ result = 0
  /\ heap \in HeapBases
  /\ rip = 0 /\ rsp = 0
  /\ rax = ZeroWord /\ rsi = ZeroWord /\ rdi = ZeroWord /\ zf = FALSE
  /\ stack = <<>> /\ mem = <<>> /\ trace = <<>>

ReadAtom ==
  /\ phase = "input" /\ driver = "Reader_read_atom"
  /\ result' = Reader_read_atom(node, 0, NameBuf, 0)
  /\ phase' = "read"
  /\ UNCHANGED <<driver, node, writer, heap, rip, rsp, rax, rsi, rdi, zf,
                 stack, mem, trace>>

\* Run_from_cstr up to AST_compile_entry, which reads node->type: of a NULL
\* node that is a fault
Read ==
  /\ phase = "input" /\ driver = "Run_from_cstr"
  /\ LET r == Reader_read(node)
     IN /\ phase' = IF r.fault # "none" THEN "aborted"
                    ELSE IF r.node = NULL THEN "segv" ELSE "start"
        /\ node' = r.node
  /\ driver' = "entry"
  /\ UNCHANGED <<writer, result, heap, rip, rsp, rax, rsi, rdi, zf, stack, mem,
                 trace>>

ReaderNext ==
  \/ ReadAtom \/ Read
  \/ Compile \/ MakeExecutable \/ CallEntry \/ Step

ReaderSpec == ReaderInit /\ [][ReaderNext]_vars

---------------------------------------------------------------------------
(* What the properties below speak of *)

\* the test body has called the compiler driver
Compiled == phase # "start"

\* the call of the buffer has returned to Testing_call_entry
Returned == phase = "done"

\* the atom name occurs somewhere in the expression n
RECURSIVE Mentions(_, _)
Mentions(n, name) ==
  IF n[1] = "kAtom" THEN n[2] = name
  ELSE IF n[1] = "kCons" /\ Len(n) = 3
       THEN Mentions(n[2], name) \/ Mentions(n[3], name)
       ELSE FALSE

\* the word mov eax, encode_fixnum(n) leaves in rax
FixnumWord(n) == ZeroExt64(Imm32(encodeImmediateFixnum(n)))

\* encode_fixnum(n) as a signed 64-bit word
FixnumWord64(n) == SignExt64(encodeImmediateFixnum(n))

\* the opcode byte of call rel32 is among the bytes written
CallEmitted == \E i \in 0..(writer.pos - 1) : writer.address[i] = 232

---------------------------------------------------------------------------
(* C1: unbound variables *)

\* C1: every expression that refers to an atom bound by no let or code
\* formal, at whatever depth the reference sits, makes the compiler driver
\* return a negative value.
C1_UnboundVariableRejected ==
  (Compiled /\ Mentions(node, "foo")) => result < 0

---------------------------------------------------------------------------
(* C2, C3: labelcall arguments *)

\* C2: (labels ((id (code (x) x))) (labelcall id n)) compiles, runs without
\* a fault and returns encode_fixnum(n), for every fixnum n.
C2_IdReturnsArgument ==
  \A n \in Fixnums :
    (driver = "prog" /\ node = IdProg(n)) =>
      /\ Compiled => result = 0
      /\ phase # "fault"
      /\ Returned => rax = FixnumWord(n)

\* C3: (labels ((id ...) (add (code (x y) (+ (labelcall id x) y))))
\* (labelcall add 1 2)) returns encode_fixnum(3).
C3_AddOfIdReturnsThree ==
  (driver = "prog" /\ node = AddProg) =>
    /\ Compiled => result = 0
    /\ phase # "fault"
    /\ Returned => rax = FixnumWord(3)

---------------------------------------------------------------------------
(* C4: pairs *)

\* the pair pointer for a cell at address base
PairWord(base) == Or64(base, SignExt64(kPairTag))

\* the heap after one cell holding the fixnums a and b was written at its start
OneCell(a, b) == (0 :> FixnumWord(a)) @@ (kWordSize :> FixnumWord(b))

\* C4: for fixnum operands a and b, (car (cons a b)) returns the value of a
\* and (cdr (cons a b)) the value of b; after (cons a b) has run on a fresh
\* heap the word at heap offset 0 holds a, the word at offset 8 holds b, and
\* the returned pointer is the heap base with the low bit set.
C4_CarCdrOfCons ==
  \A a \in Fixnums, b \in Fixnums :
    (driver = "entry" /\ node \in {Cons(F(a), F(b)), call1("car", Cons(F(a), F(b))),
                                   call1("cdr", Cons(F(a), F(b)))}) =>
      /\ Compiled => result = 0 /\ ~writer.abort
      /\ phase # "fault"
      /\ Returned => /\ mem = OneCell(a, b)
                     /\ node = Cons(F(a), F(b)) => rax = PairWord(heap)
                     /\ node = call1("car", Cons(F(a), F(b))) => rax = FixnumWord(a)
                     /\ node = call1("cdr", Cons(F(a), F(b))) => rax = FixnumWord(b)

\* (car (cons -1 1)) has returned -1 from a heap above 2^32
C4_Witness ==
  /\ Returned /\ driver = "entry"
  /\ node = call1("car", Cons(F(-1), F(1)))
  /\ heap[5] # 0
  /\ rax = FixnumWord(-1) /\ mem = OneCell(-1, 1)

---------------------------------------------------------------------------
(* C5, C6: arithmetic *)

\* the fixnums encode_fixnum keeps within 32 bits
Representable(n) == n >= -536870912 /\ n <= 536870911

\* the 64-bit values encode_fixnum(n) can be read as
Encodings(n) == {FixnumWord(n), FixnumWord64(n)}

\* C5: for fixnums a and b, negative ones included, with a representable
\* sum, (+ a b) returns the 64-bit value encode_fixnum(a+b); (+ a (+ b c))
\* and (+ (+ a b) c) both return encode_fixnum(a+b+c).
C5_PlusReturnsSum ==
  /\ \A a \in Fixnums, b \in Fixnums :
       (driver = "function" /\ node = Plus(F(a), F(b)) /\ Representable(a + b)
        /\ Returned) => rax \in Encodings(a + b)
  /\ \A a \in Fixnums, b \in Fixnums, c \in Fixnums :
       (driver = "function" /\ Representable(a + b + c) /\ Returned
        /\ node \in {Plus(F(a), Plus(F(b), F(c))), Plus(Plus(F(a), F(b)), F(c))})
       => rax \in Encodings(a + b + c)

\* C6: for every fixnum n with n-1, n and n+1 representable, (add1 n)
\* returns encode_fixnum(n+1), (sub1 n) returns encode_fixnum(n-1), and
\* (sub1 (add1 n)) and (add1 (sub1 n)) return encode_fixnum(n), each being
\* the word the literal of that fixnum returns.
C6_Add1Sub1 ==
  \A n \in EdgeFixnums :
    (driver = "function" /\ Representable(n - 1) /\ Representable(n + 1)) =>
      /\ (Compiled /\ node \in Add1Nodes) => result = 0 /\ ~writer.abort
      /\ node \in Add1Nodes => phase # "fault"
      /\ (Returned /\ node = F(n)) => rax = FixnumWord(n)
      /\ (Returned /\ node = call1("add1", F(n))) => rax = FixnumWord(n + 1)
      /\ (Returned /\ node = call1("sub1", F(n))) => rax = FixnumWord(n - 1)
      /\ (Returned /\ node = call1("sub1", call1("add1", F(n)))) =>
           rax = FixnumWord(n)
      /\ (Returned /\ node = call1("add1", call1("sub1", F(n)))) =>
           rax = FixnumWord(n)

\* (sub1 (add1 -1)) has returned -1
C6_Witness ==
  /\ Returned /\ driver = "function"
  /\ node = call1("sub1", call1("add1", F(-1)))
  /\ rax = FixnumWord(-1)

---------------------------------------------------------------------------
(* C7: if *)

EmptyWriter == BufferWriter_init(kBufferLen)

\* the number of bytes the compiler emits for a closed expression
CodeLen(n) ==
  AST_compile_expr(CompilerContext_init(EmptyWriter, <<>>, <<>>), n,
                   -kWordSize).writer.pos

PrologueLen == Buffer_mov_reg_reg(EmptyWriter, kRsi, kRdi).pos
CmpLen == Buffer_cmp_reg_imm32(EmptyWriter, kRax, 0).pos
JeLen == Buffer_je_imm32(EmptyWriter, 1).pos
JmpLen == Buffer_jmp_imm32(EmptyWriter, 1).pos

\* where AST_compile_entry puts the parts of (if t a b)
CmpPos(t) == PrologueLen + CodeLen(t)
ThenStart(t) == CmpPos(t) + CmpLen + JeLen
ThenEnd(t, a) == ThenStart(t) + CodeLen(a)
ElseStart(t, a) == ThenEnd(t, a) + JmpLen
ElseEnd(t, a, b) == ElseStart(t, a) + CodeLen(b)

\* the instructions executed so far and the one about to be
Executed ==
  {trace[j] : j \in 1..Len(trace)} \cup (IF phase = "running" THEN {rip} ELSE {})

\* the tests of the model that evaluate to boolean false
IsFalse(t) == t = call1("zero?", F(1))

BoolFalseWord == ZeroExt64(Imm32(encodeImmediateBool(FALSE)))

\* what a branch leaves behind when it alone has run on a fresh heap
BranchRan(e) ==
  IF e[1] = "kFixnum"
  THEN rax = FixnumWord(e[2]) /\ mem = <<>> /\ rsi = heap
  ELSE /\ rax = PairWord(heap)
       /\ mem = OneCell(operand1(AST_cdr(e))[2], operand2(AST_cdr(e))[2])
       /\ SubSeq(rsi, 1, 4)
            = SubSeq(Add64(heap, WordOfNat(2 * kWordSize)), 1, 4)

\* C7: when the code of (if test A B) runs exactly one branch executes: B
\* alone if test evaluated to boolean false, A alone otherwise; no
\* instruction of the other branch is executed, its heap writes and
\* allocation-pointer bumps included, and the result is the chosen
\* branch's value.
C7_IfRunsOneBranch ==
  \A t \in IfTests \ {nil}, a \in IfBranches, b \in IfBranches :
    (driver = "entry" /\ node = If(t, a, b)) =>
      /\ Compiled => result = 0
      /\ phase # "fault"
      /\ (phase = "running" /\ rip = CmpPos(t)) =>
           ((rax = BoolFalseWord) <=> IsFalse(t))
      /\ IsFalse(t) =>
           /\ Executed \cap (ThenStart(t)..(ElseStart(t, a) - 1)) = {}
           /\ Returned => ElseStart(t, a) \in Executed /\ BranchRan(b)
      /\ ~IsFalse(t) =>
           /\ Executed \cap (ElseStart(t, a)..(ElseEnd(t, a, b) - 1)) = {}
           /\ Returned => ThenStart(t) \in Executed /\ BranchRan(a)

\* (if (zero? 1) (cons 1 2) 2) has returned 2 and left the heap untouched
C7_Witness ==
  /\ Returned /\ driver = "entry"
  /\ node = If(call1("zero?", F(1)), Cons(F(1), F(2)), F(2))
  /\ rax = FixnumWord(2) /\ mem = <<>> /\ rsi = heap

---------------------------------------------------------------------------
(* C8: let *)

\* the slot of the first binding of a let compiled by AST_compile_entry
OuterSlot(word) == -kWordSize \in DOMAIN stack /\ stack[-kWordSize] = word

\* C8: a let-bound variable is visible in the body and in later bindings of
\* the same let; inside an inner let that rebinds the name, references read
\* the inner binding; references evaluated outside the inner let, before or
\* after it, read the outer binding, whose slot still holds its value.
C8_LetScoping ==
  \A a \in Fixnums, b \in Fixnums :
    driver = "entry" =>
      /\ (Compiled /\ node \in LetNodes) => result = 0 /\ ~writer.abort
      /\ node \in LetNodes => phase # "fault"
      /\ (Returned /\ node = Let1("x", F(a), A("x"))) => rax = FixnumWord(a)
      /\ (Returned /\ node = Let2("x", F(a), "y", call1("add1", A("x")),
                                  Cons(A("x"), A("y")))) =>
           mem = OneCell(a, a + 1)
      /\ (Returned /\ node = Let1("x", F(a), Let1("x", F(b), A("x")))) =>
           rax = FixnumWord(b) /\ OuterSlot(FixnumWord(a))
      /\ (Returned /\ node = Let1("x", F(a),
                                  Cons(A("x"), Let1("x", F(b), A("x"))))) =>
           mem = OneCell(a, b) /\ OuterSlot(FixnumWord(a))
      /\ (Returned /\ node = Let1("x", F(a),
                                  Cons(Let1("x", F(b), A("x")), A("x")))) =>
           mem = OneCell(b, a) /\ OuterSlot(FixnumWord(a))
      /\ (Returned /\ node = Let1("x", F(a),
                                  Let1("y", Let1("x", F(b), A("x")),
                                       Cons(A("x"), A("y"))))) =>
           mem = OneCell(a, b) /\ OuterSlot(FixnumWord(a))

\* (let ((x 1)) (cons (let ((x -1)) x) x)) has built the pair (-1 . 1)
C8_Witness ==
  /\ Returned /\ driver = "entry"
  /\ node = Let1("x", F(1), Cons(Let1("x", F(-1), A("x")), A("x")))
  /\ mem = OneCell(-1, 1) /\ OuterSlot(FixnumWord(1))

---------------------------------------------------------------------------
(* C9: unbound labels *)

\* C9: a labelcall of a label bound by no labels form makes the compiler
\* driver return a non-zero value wherever the labelcall sits, and no call
\* instruction is emitted for it.
C9_UnboundLabelRejected ==
  (Compiled /\ Mentions(node, "nonexistent-label")) =>
    /\ result # 0
    /\ (driver = "function" /\ ~writer.abort) => ~CallEmitted

---------------------------------------------------------------------------
(* C10: the layout of a labels program *)

\* the programs of the model that AST_compile_prog compiles without error
LayoutProgs == LabelsProgs \cup {IdProg(n) : n \in Fixnums}

\* every label of the bindings, bound to a code position
RECURSIVE LabelNames(_)
LabelNames(bindings) ==
  IF bindings = nil THEN <<>>
  ELSE Env_init(AST_car(AST_car(bindings))[2], 0, LabelNames(AST_cdr(bindings)))

\* the number of bytes emitted for the code of all the labels
RECURSIVE LabelBytes(_, _)
LabelBytes(bindings, labels) ==
  IF bindings = nil THEN 0
  ELSE AST_compile_expr(CompilerContext_init(EmptyWriter, labels, <<>>),
                        AST_car(AST_cdr(AST_car(bindings))),
                        -kWordSize).writer.pos
       + LabelBytes(AST_cdr(bindings), labels)

LabelRegion(prog) ==
  LET bindings == operand1(AST_cdr(prog))
      size == LabelBytes(bindings, LabelNames(bindings))
  IN JmpLen..(JmpLen + size - 1)

\* the instructions in execution order, the one about to run last
Path == IF phase = "running" THEN Append(trace, rip) ELSE trace

\* C10: the buffer of (labels ((L1 e1) ... (Lk ek)) body), k >= 0, starts
\* with a jmp rel32 whose displacement is the number of bytes emitted for
\* the label code (0 when k = 0); execution from offset 0 lands on the
\* mov rsi, rdi of the entry prologue, which follows the label code; and
\* label code is entered only by a call.
C10_LabelsLayout ==
  (driver = "prog" /\ node \in LayoutProgs /\ Compiled) =>
    LET region == LabelRegion(node)
        size == Cardinality(region)
        entry == JmpLen + size
    IN /\ result = 0 /\ ~writer.abort /\ ~writer.ub
       /\ writer.address[0] = 233
       /\ <<writer.address[1], writer.address[2], writer.address[3],
            writer.address[4]>> = Imm32(size)
       /\ operand1(AST_cdr(node)) = nil => size = 0
       /\ size > 0 => writer.address[entry - 1] = 195
       /\ <<writer.address[entry], writer.address[entry + 1],
            writer.address[entry + 2]>> = <<72, 137, 254>>
       /\ Len(Path) >= 1 => Path[1] = 0
       /\ Len(Path) >= 2 => Path[2] = entry
       /\ \A j \in 2..Len(Path) :
            Path[j] \in region =>
              \/ Path[j - 1] \in region
              \/ writer.address[Path[j - 1]] = 232
       /\ \A j \in 2..Len(Path) :
            (Path[j - 1] \notin region /\ writer.address[Path[j - 1]] = 232)
              => Path[j] \in region

\* (labels ((const (code () 5))) (labelcall const)) has run the code of
\* const and returned 5
C10_Witness ==
  /\ Returned /\ driver = "prog"
  /\ node = Labels(list1(ConstBinding("const", 5)), Labelcall0("const"))
  /\ JmpLen \in Executed
  /\ rax = FixnumWord(5)

---------------------------------------------------------------------------
(* C11: integer->char *)

\* the word a char leaves in rax: its 32-bit encoding, zero-extended
CharWord(n) == ZeroExt64(Imm32(encodeImmediateChar(n)))

\* C11 (amended): compiling (integer->char n) for a fixnum n in 0..127 with
\* AST_compile_function succeeds, and invoking it returns the char encoding
\* of n, the code shifted left by 8 with the tag 0x0F; for n = 65 that is
\* encode_char('A') = 0x410F.
C11_IntegerToChar ==
  \A n \in CharCodes :
    (driver = "function" /\ node = call1("integer->char", F(n)) /\ Compiled) =>
      /\ result = 0
      /\ phase \notin {"aborted", "failed", "fault"}
      /\ Returned => /\ rax = CharWord(n)
                     /\ rax = WordOfNat((n * 256) + 15)
                     /\ n = 65 => rax = WordOfNat(16655)

\* C11 as stated: (integer->char 65) returns encode_char('A') and that value
\* is 0x4147.
C11_AsStated ==
  (driver = "function" /\ node = call1("integer->char", F(65)) /\ Returned) =>
    /\ rax = CharWord(65)
    /\ rax = WordOfNat(16711)

C11_Witness ==
  /\ driver = "function" /\ node = call1("integer->char", F(65))
  /\ Returned
  /\ rax = <<15, 65, 0, 0, 0, 0, 0, 0>>

---------------------------------------------------------------------------
(* C12 to C15: the buffer's life cycle, under BufferSpec *)

\* the calls that store into the region
EmitCalls ==
  {"Buffer_write8", "Buffer_write32", "Buffer_write_arr",
   "Buffer_add_reg_imm32", "Buffer_sub_reg_imm32"}
WriteCalls ==
  EmitCalls \cup {"Buffer_at_put", "BufferWriter_backpatch_displacement_imm32"}

\* C12: once Buffer_make_executable has set the Executable state, every later
\* call that writes through the writer ends the process and changes no byte
\* of the region.
C12_LateWriteIsFatal ==
  [][(writer.state = "kExecutable" /\ driver' \in WriteCalls) =>
       (phase' \in {"aborted", "segv"} /\ writer'.address = writer.address)]_vars

\* C13: the cursor stays within 0..capacity and nothing is stored at an index
\* at or beyond the capacity; an emit attempted with the cursor at the
\* capacity fails its assert and changes nothing, and an emit that runs out
\* of room part way fails its assert with the cursor at the capacity, having
\* stored only below it.
C13_CursorWithinCapacity ==
  /\ [](/\ writer.len = BufCap
        /\ writer.pos \in 0..writer.len
        /\ DOMAIN writer.address = 0..(writer.len - 1)
        /\ ~writer.ub)
  /\ [][(driver' \in EmitCalls /\ writer.pos = writer.len) =>
          (/\ phase' = "aborted" /\ writer'.abort
           /\ writer'.address = writer.address
           /\ writer'.pos = writer.pos)]_vars
  /\ [][(driver' \in EmitCalls /\ writer'.abort) =>
          (/\ writer'.pos = writer.len
           /\ \A i \in 0..(writer.pos - 1) :
                writer'.address[i] = writer.address[i])]_vars

\* an add rsi, imm32 that ran out of room after its first bytes
C13_Witness ==
  /\ driver = "Buffer_add_reg_imm32" /\ node = <<kRsi, 16>>
  /\ phase = "aborted" /\ writer.abort
  /\ writer.pos = writer.len
  /\ writer.address[writer.len - 2] = 129
  /\ writer.address[writer.len - 1] = 198

\* C14: the state field never goes from Executable back to Writable, and
\* Testing_call_entry enters the buffer only when the state is Executable and
\* the region is still mapped: on a Writable buffer, and after Buffer_deinit,
\* its asserts stop the process.
C14_OnlyExecutableIsInvoked ==
  /\ [][writer.state = "kExecutable" => writer'.state = "kExecutable"]_vars
  /\ [][driver' = "Testing_call_entry" =>
          IF writer.state = "kExecutable" /\ writer.prot # "unmapped"
          THEN phase' \in {"running", "segv"}
          ELSE phase' = "aborted"]_vars
  /\ [](phase = "running" =>
          writer.state = "kExecutable" /\ writer.prot = "x")

\* Testing_call_entry after Buffer_make_executable and Buffer_deinit
C14_Witness ==
  /\ driver = "Testing_call_entry"
  /\ phase = "aborted"
  /\ writer.state = "kExecutable" /\ writer.prot = "unmapped"

\* C15: a failed mmap in Buffer_init and a failed mprotect in
\* Buffer_make_executable stop the process; a buffer whose mprotect failed is
\* not left marked Executable.
C15_ResourceFailureIsFatal ==
  /\ (driver = "Buffer_init" /\ writer.prot = "unmapped") => phase = "aborted"
  /\ (driver = "Buffer_make_executable" /\ result # 0) =>
        (phase = "aborted" /\ writer.state # "kExecutable")

---------------------------------------------------------------------------
(* C16: the encodings of add and sub with an immediate, under BufferSpec *)

\* the table's bytes for add (extension 0) and sub (extension 5): the short
\* form for rax, 81 /extension otherwise, then imm32 little-endian
TableBytes(short, extension, r, imm32) ==
  (IF r = kRax THEN <<short>> ELSE <<129, 192 + (8 * extension) + r>>)
  \o <<imm32 % 256, (imm32 \div 256) % 256, (imm32 \div 65536) % 256,
       (imm32 \div 16777216) % 256>>

\* the last n bytes the writer stored
LastBytes(n) == [i \in 1..n |-> writer.address[(writer.pos - n) + (i - 1)]]

\* C16: a completed Buffer_add_reg_imm32(r, imm32) has stored 05 imm32 for
\* rax and 81, C0+r, imm32 for any other register, and a completed
\* Buffer_sub_reg_imm32(r, imm32) 2D imm32 for rax and 81, E8+r, imm32 for any
\* other register.
C16_AddSubEncodings ==
  (phase = "ready" /\ driver \in {"Buffer_add_reg_imm32", "Buffer_sub_reg_imm32"}) =>
    LET r == node[1]
        expected == IF driver = "Buffer_add_reg_imm32"
                    THEN TableBytes(5, 0, r, node[2])
                    ELSE TableBytes(45, 5, r, node[2])
    IN LastBytes(Len(expected)) = expected

\* the add half of the table alone
C16_AddEncodings ==
  (phase = "ready" /\ driver = "Buffer_add_reg_imm32") =>
    LastBytes(Len(TableBytes(5, 0, node[1], node[2])))
      = TableBytes(5, 0, node[1], node[2])

---------------------------------------------------------------------------
(* C17: the allocation pointer *)

\* C17: every executed cons advances the 64-bit rsi by exactly 16, whatever
\* the heap base: after a program with one cons has run rsi is heap + 16 and
\* the pair is at heap; after a program with two rsi is heap + 32, and no
\* store of a cons leaves the heap.
C17_ConsAdvancesRsi ==
  (driver = "entry" /\ node \in ConsNodes \cup NestedConsNodes) =>
    /\ phase # "fault"
    /\ (Returned /\ node \in ConsNodes) =>
          rsi = Add64(heap, WordOfNat(16))
    /\ (Returned /\ node \in NestedConsNodes) =>
          rsi = Add64(heap, WordOfNat(32))

---------------------------------------------------------------------------
(* C18: fixnum literals over the whole range the encoder accepts *)

\* C18: for every n the asserts of encodeImmediateFixnum accept, the literal
\* n compiles, and invoking it returns a word whose low two bits are 00 and
\* whose 32-bit value shifted right arithmetically by 2 is n; no other
\* accepted literal returns the same word.
C18_LiteralRoundTrip ==
  \A n \in EdgeFixnums \cup WideFixnums :
    (driver = "function" /\ node = F(n) /\ encodeImmediateFixnum_ok(n)
       /\ Compiled) =>
      /\ result = 0 /\ ~writer.abort
      /\ Returned =>
           /\ rax = FixnumWord(n)
           /\ Int32Of(rax) % 4 = 0
           /\ Int32Of(rax) \div 4 = n
           /\ \A m \in EdgeFixnums \cup WideFixnums :
                (encodeImmediateFixnum_ok(m) /\ rax = FixnumWord(m)) => m = n

---------------------------------------------------------------------------
(* C19: where a labelcall stages its arguments *)

\* the displacements of the mov [rsp+disp8], rax instructions emitted
ArgStores ==
  {SignedByte(writer.address[i + 4]) :
     i \in {j \in 0..(writer.pos - 5) :
              /\ writer.address[j] = 72 /\ writer.address[j + 1] = 137
              /\ writer.address[j + 2] = 68 /\ writer.address[j + 3] = 36}}

\* C19: a labelcall compiled at stack_index s stores argument i to the slot
\* s - 8*(i+1) and leaves the slot s to the return address of call: the
\* labelcalls of these programs are compiled at s = -8, so their arguments are
\* stored at -16 and -24 and nothing is stored at -8.
C19_ArgumentSlots ==
  (driver = "prog" /\ Compiled /\ ~writer.abort) =>
    /\ \A n \in Fixnums : node = IdProg(n) => ArgStores = {-16}
    /\ node = SndProg => ArgStores = {-16, -24}

---------------------------------------------------------------------------
(* C20: the displacement of a call *)

\* the offset at which the code of label name starts, the code of the
\* bindings being laid out from pos on; -1 when no binding has that name
RECURSIVE LabelStart(_, _, _, _)
LabelStart(bindings, labels, name, pos) ==
  IF bindings = nil THEN -1
  ELSE IF AST_car(AST_car(bindings))[2] = name THEN pos
  ELSE LabelStart(AST_cdr(bindings), labels, name,
                  pos + LabelBytes(list1(AST_car(bindings)), labels))

\* the label a labelcall expression names
CalledLabel(e) == operand1(AST_cdr(e))[2]

\* target - (pos + 5) as the four bytes after the E8 at pos say it
Rel32At(pos) ==
  Int32Of(<<writer.address[pos + 1], writer.address[pos + 2],
            writer.address[pos + 3], writer.address[pos + 4]>>)

\* C20: every call that a labelcall emitted and that is executed is E8 with
\* a rel32 equal to target - (pos + 5), pos being the offset of the E8 byte
\* and target the offset where the code of a label of the program starts;
\* the call of the program body has the start of the label it names as its
\* target; the instruction executed next is the one at target; all these
\* displacements are negative.
C20_CallDisplacement ==
  (driver = "prog" /\ node \in LayoutProgs \cup {SndProg} /\ Compiled) =>
    LET bindings == operand1(AST_cdr(node))
        body == operand2(AST_cdr(node))
        labels == LabelNames(bindings)
        Start(name) == LabelStart(bindings, labels, name, JmpLen)
        starts == {Start(l) : l \in {"const", "f", "g", "id", "add", "snd"}}
                  \ {-1}
    IN \A j \in 1..Len(Path) :
         writer.address[Path[j]] = 232 =>
           LET pos == Path[j]
               target == pos + 5 + Rel32At(pos)
           IN /\ target \in starts
              /\ Rel32At(pos) < 0
              /\ (pos \notin LabelRegion(node)
                    /\ AST_atom_equals_cstr(AST_car(body), "labelcall"))
                   => target = Start(CalledLabel(body))
              /\ (pos \in LabelRegion(node) /\ node # AddProg) =>
                   target = Start("f")
              /\ (pos \in LabelRegion(node) /\ node = AddProg) =>
                   target = Start("id")
              /\ j < Len(Path) => Path[j + 1] = target

\* g has called f, the label before it, and the program has returned
C20_Witness ==
  /\ Returned /\ driver = "prog"
  /\ node = Labels(list2(ConstBinding("f", 1),
                         list2(A("g"), Code0(call1("add1", Labelcall0("f"))))),
                   Labelcall0("g"))
  /\ \E j \in 1..(Len(Path) - 1) :
       /\ Path[j] \in LabelRegion(node)
       /\ writer.address[Path[j]] = 232
       /\ Path[j + 1] = JmpLen
  /\ rax = FixnumWord(2)

---------------------------------------------------------------------------
(* C21: the frame of a back-patch, under BufferSpec *)

\* C21: BufferWriter_backpatch_displacement_imm32(writer, p) on a writable
\* buffer overwrites the four bytes at p-4..p-1 with writer.pos - p, least
\* significant byte first, and leaves the cursor, the buffer state and every
\* other byte as they were.
C21_BackpatchFrame ==
  [][(driver' = "BufferWriter_backpatch_displacement_imm32"
        /\ phase' = "ready") =>
       LET p == node'[1]
           relative == writer.pos - p
       IN /\ writer'.pos = writer.pos
          /\ writer'.state = writer.state
          /\ writer'.len = writer.len
          /\ writer'.prot = writer.prot
          /\ relative \in 0..writer.len
          /\ <<writer'.address[p - 4], writer'.address[p - 3],
               writer'.address[p - 2], writer'.address[p - 1]>>
               = <<relative, 0, 0, 0>>
          /\ \A i \in DOMAIN writer.address \ ((p - 4)..(p - 1)) :
               writer'.address[i] = writer.address[i]]_vars

\* a back-patch with the cursor at 6 of a jump that ended at 4, the two
\* bytes emitted after the jump still in place
C21_Witness ==
  /\ driver = "BufferWriter_backpatch_displacement_imm32"
  /\ node = <<4>>
  /\ phase = "ready"
  /\ writer.pos = 6
  /\ <<writer.address[0], writer.address[1], writer.address[2],
       writer.address[3]>> = <<2, 0, 0, 0>>
  /\ writer.address[4] # 0 /\ writer.address[5] # 0

---------------------------------------------------------------------------
(* C22: the locals of a code body *)

\* the bytes emitted so far
Emitted == [i \in 1..writer.pos |-> writer.address[i - 1]]

\* C22: the body of a code form sees its formals at -8, -16, ... whatever
\* the stack_index at which the form appears, and sees no local bound
\* outside the form: a reference to such a name is a compile error.
C22_CodeBodyLocals ==
  (driver = "function" /\ Compiled) =>
    /\ node = Code1("x", A("x")) =>
          result = 0 /\ Emitted = <<72, 139, 68, 36, 248, 195, 195>>
    /\ node = Code2("x", "y", A("y")) =>
          result = 0 /\ Emitted = <<72, 139, 68, 36, 240, 195, 195>>
    /\ node = Let1("z", F(1), Code1("x", A("x"))) =>
          result = 0
          /\ Emitted = <<184, 4, 0, 0, 0, 72, 137, 68, 36, 248,
                         72, 139, 68, 36, 248, 195, 195>>
    /\ node = Code1("x", A("z")) => result # 0
    /\ node = Code1("z", Code1("x", A("z"))) => result # 0

---------------------------------------------------------------------------
(* C23: the scope of a label *)

\* C23: a label is bound to the offset of the first byte of its code and is
\* visible in its own code, in the code of the labels after it and in the
\* body; a labelcall in the code of a label to a label bound after it is
\* an unbound-label error, and AST_compile_prog returns non-zero.
C23_LabelScope ==
  (driver = "prog" /\ Compiled) =>
    /\ node = SelfProg =>
          /\ result = 0
          /\ Rel32At(JmpLen) = JmpLen - (JmpLen + 5)
    /\ node = ForwardProg(Labelcall0("f")) =>
          /\ result = 0
          /\ Rel32At(JmpLen) = JmpLen - (JmpLen + 5)
    /\ node = Labels(list2(ConstBinding("f", 1),
                           list2(A("g"), Code0(call1("add1", Labelcall0("f"))))),
                     Labelcall0("g")) =>
          /\ result = 0
          /\ Returned => rax = FixnumWord(2)
    /\ node = ForwardProg(Labelcall0("g")) => result # 0
    /\ node = ForwardProg(call1("add1", Labelcall0("g"))) => result # 0

---------------------------------------------------------------------------
(* The stack index of every AST_compile_expr call *)

\* the slots a name of the locals chain resolves to
BoundSlots(locals) ==
  {Env_lookup(locals, locals[i].name).stack_index : i \in 1..Len(locals)}

\* The calls of AST_compile_expr made under AST_compile_expr(ctx, n,
\* stack_index), each with its stack_index and the slots that are live at
\* the call: those bound to a local in scope and those in which a + holds
\* its second operand (pending) while the first is compiled.  The recursion
\* is that of the compiler; the writer of ctx is not threaded, since no
\* result depends on it.
RECURSIVE ExprCalls(_, _, _, _)
RECURSIVE LetCalls(_, _, _, _, _)
RECURSIVE CodeCalls(_, _, _, _)
RECURSIVE ArgCalls(_, _, _, _)

LetCalls(ctx, pending, bindings, body, stack_index) ==
  IF bindings = nil THEN ExprCalls(ctx, pending, body, stack_index)
  ELSE LET first_binding == AST_car(bindings)
           new_locals == Env_init(AST_car(first_binding)[2], stack_index,
                                  ctx.locals)
       IN ExprCalls(ctx, pending, AST_car(AST_cdr(first_binding)),
                    stack_index)
          \cup LetCalls(CompilerContext_with_locals(ctx, new_locals), pending,
                        AST_cdr(bindings), body, stack_index - kWordSize)

\* the body runs in a new call frame: no + of the caller is pending in it
CodeCalls(ctx, formals, body, stack_index) ==
  IF formals = nil THEN ExprCalls(ctx, {}, body, stack_index)
  ELSE CodeCalls(CompilerContext_with_locals(
                   ctx, Env_init(AST_car(formals)[2], stack_index, ctx.locals)),
                 AST_cdr(formals), body, stack_index - kWordSize)

ArgCalls(ctx, pending, args, stack_index) ==
  IF args = nil THEN {}
  ELSE ExprCalls(ctx, pending, AST_car(args), stack_index)
       \cup IF AST_compile_expr(ctx, AST_car(args), stack_index).result # 0
            THEN {}
            ELSE ArgCalls(ctx, pending, AST_cdr(args),
                          stack_index - kWordSize)

ExprCalls(ctx, pending, n, stack_index) ==
  {[stack_index |-> stack_index,
    live |-> BoundSlots(ctx.locals) \cup pending]}
  \cup
  IF n[1] # "kCons" \/ ~AST_is_atom(AST_car(n)) THEN {}
  ELSE LET fnexpr == AST_car(n)
           args == AST_cdr(n)
       IN CASE fnexpr[2] \in {"add1", "sub1", "integer->char", "zero?",
                              "car", "cdr"} ->
                 ExprCalls(ctx, pending, operand1(args), stack_index)
            [] fnexpr[2] = "+" ->
                 ExprCalls(ctx, pending, operand2(args), stack_index)
                 \cup ExprCalls(ctx, pending \cup {stack_index},
                                operand1(args), stack_index - kWordSize)
            [] fnexpr[2] = "let" ->
                 LetCalls(ctx, pending, operand1(args), operand2(args),
                          stack_index)
            [] fnexpr[2] = "if" ->
                 ExprCalls(ctx, pending, operand1(args), stack_index)
                 \cup ExprCalls(ctx, pending, operand2(args), stack_index)
                 \cup ExprCalls(ctx, pending, operand3(args), stack_index)
            [] fnexpr[2] = "cons" ->
                 ExprCalls(ctx, pending, operand1(args),
                           stack_index - kWordSize)
                 \cup ExprCalls(ctx, pending, operand2(args), stack_index)
            [] fnexpr[2] = "code" ->
                 CodeCalls(ctx, operand1(args), operand2(args), -kWordSize)
            [] fnexpr[2] = "labelcall" ->
                 IF Env_lookup(ctx.labels, operand1(args)[2]).found
                 THEN ArgCalls(ctx, pending, AST_cdr(args), stack_index)
                 ELSE {}
            [] OTHER -> {}

\* the calls made for the code of the labels, then for the body
RECURSIVE LabelsCalls(_, _, _)
LabelsCalls(ctx, bindings, body) ==
  IF bindings = nil THEN ExprCalls(ctx, {}, body, -kWordSize)
  ELSE LET binding == AST_car(bindings)
           new_ctx == CompilerContext_with_labels(
                        ctx, Env_init(AST_car(binding)[2], 0, ctx.labels))
           exp == AST_car(AST_cdr(binding))
       IN ExprCalls(new_ctx, {}, exp, -kWordSize)
          \cup IF AST_compile_expr(new_ctx, exp, -kWordSize).result # 0
               THEN {}
               ELSE LabelsCalls(new_ctx, AST_cdr(bindings), body)

\* the calls of the test body at hand
DriverCalls ==
  IF driver = "prog"
  THEN LabelsCalls(Ctx0, operand1(AST_cdr(node)), operand2(AST_cdr(node)))
  ELSE ExprCalls(Ctx0, {}, node, -kWordSize)

\* C24: in every AST_compile_expr call made from AST_compile_entry or
\* AST_compile_prog the stack_index is negative and a multiple of 8, it is
\* -8 for the program body and for a code form without formals, and every
\* live slot (bound to a local in scope, or holding a pending + temporary)
\* lies strictly above it; so a let inside a code body does not change what
\* a name bound outside evaluates to
C24_NextFreeSlot ==
  (driver \in {"entry", "prog"} /\ Compiled /\ ~writer.abort) =>
    /\ \A c \in DriverCalls :
         /\ c.stack_index < 0
         /\ c.stack_index % kWordSize = 0
         /\ \A slot \in c.live : slot > c.stack_index
    /\ (node = OuterLocalNode /\ Returned) => rax = FixnumWord(1)

---------------------------------------------------------------------------
(* C25: stack indexes below -128, under BufferSpec *)

StackEmitters ==
  {"Buffer_mov_reg_to_stack", "Buffer_mov_stack_to_reg",
   "Buffer_add_reg_stack"}

\* a stack-slot emitter is called with a stack_index below -128 on a
\* writable buffer that has room for its five bytes
WideStackCall ==
  /\ phase = "ready" /\ writer.prot = "rw" /\ writer.pos + 5 <= writer.len
  /\ driver' \in StackEmitters /\ node'[2] < -128

\* C25 as stated: for every stack_index < -128 the stack-slot emitters raise
\* no assertion and emit a disp8 byte equal to stack_index mod 256.
C25_AsStated ==
  [][WideStackCall =>
       /\ ~writer'.abort
       /\ writer'.address[writer'.pos - 1] = node'[2] % 256]_vars

\* C25: for a stack_index < -128 the int8_t offset is stack_index mod 256
\* read as a signed byte; when that byte is below 128 (the offset is not
\* negative: -136 .. -256) the assertion offset < 0 stops the process and
\* nothing is emitted; otherwise (-264 .. -384) no assertion fires, five
\* bytes are emitted and the disp8 byte is stack_index mod 256.
C25_DisplacementWraps ==
  [][WideStackCall =>
       IF node'[2] % 256 < 128
       THEN writer'.abort /\ writer'.pos = writer.pos
            /\ writer'.address = writer.address
       ELSE /\ ~writer'.abort
            /\ writer'.pos = writer.pos + 5
            /\ writer'.address[writer'.pos - 1] = node'[2] % 256]_vars

C25_Witness ==
  /\ phase = "ready" /\ driver \in StackEmitters /\ node[2] = -264
  /\ LastBytes(1) = <<248>>

---------------------------------------------------------------------------
(* C26: Reader_read_atom, under ReaderSpec *)

\* the number of atom characters the text starts with
RunLength(input) ==
  CHOOSE m \in 0..Len(input) :
    /\ \A i \in 0..(m - 1) : isatomchar(CharAt(input, i))
    /\ ~isatomchar(CharAt(input, m))

\* the string made of the characters
RECURSIVE StringOf(_)
StringOf(chars) ==
  IF chars = <<>> THEN "" ELSE Head(chars) \o StringOf(Tail(chars))

\* C26: for a text that starts with m characters of {A-Za-z+-},
\* Reader_read_atom returns the atom named by the first min(m, 32) of them
\* and leaves the cursor just after these; no store leaves the 33 bytes of
\* the name buffer and the name ends where the NUL was stored.
C26_AtomRead ==
  (driver = "Reader_read_atom" /\ phase = "read") =>
    LET m == RunLength(node)
        taken == IF m < 32 THEN m ELSE 32
    IN /\ result.node = AST_new_atom(StringOf(SubSeq(node, 1, taken)))
       /\ result.pos = taken
       /\ result.fault = "none"

C26_Witness ==
  /\ driver = "Reader_read_atom" /\ phase = "read"
  /\ RunLength(node) > 32 /\ result.pos = 32

---------------------------------------------------------------------------
(* C29: the names of the forms, under ReaderSpec *)

\* C29: the text of a call of each form of the language (add1, sub1,
\* integer->char, zero?, +, let, if, cons, car, cdr, code, labels,
\* labelcall) is read as the list headed by the atom of that name, e.g.
\* "(add1 5)" as the two-element list (add1 5), which Run_from_cstr hands to
\* the compiler.
C29_FormNamesRead ==
  [][\A fc \in FormCalls :
       (phase = "input" /\ driver = "Run_from_cstr" /\ node = fc.text) =>
         (phase' = "start" /\ node' = fc.node)]_vars

---------------------------------------------------------------------------
(* C27: the caller's slots across a labelcall *)

\* the store mov [rsp-8], rax has run; the label code of the two programs
\* below stores nothing, so it ran in the program body
BodySlotStored ==
  \E j \in 1..Len(trace) :
    [i \in 1..5 |-> writer.address[trace[j] + (i - 1)]] = <<72, 137, 68, 36, 248>>

\* C27: the code of a labelcall leaves the live slots of the caller as they
\* were.  In (+ (labelcall f) (labelcall g)) the value of (labelcall g) is
\* pending in the slot -8 of the program body while f is called, and in
\* (let ((a 1)) (+ a (labelcall f))) a is bound to that slot: once stored,
\* the slot holds that value whenever control is in the program body, and
\* the programs return 3 and 6.
C27_CallerSlotsKept ==
  (driver = "prog" /\ phase \in {"running", "done"} /\ rsp = 0
     /\ node \in {PendingAcrossCallProg, LocalAcrossCallProg}
     /\ BodySlotStored) =>
    /\ node = PendingAcrossCallProg =>
          /\ stack[-kWordSize] = FixnumWord(2)
          /\ Returned => rax = FixnumWord(3)
    /\ node = LocalAcrossCallProg =>
          /\ stack[-kWordSize] = FixnumWord(1)
          /\ Returned => rax = FixnumWord(6)

---------------------------------------------------------------------------
(* C28: a cons among the operands of a cons *)

\* the heap word at byte offset off holds word
HeapHolds(off, word) == off \in DOMAIN mem /\ mem[off] = word

\* the pair at heap offset c holds x and a pointer to the pair at heap
\* offset d, or that pointer and x, and the pair at d holds y and z
TwoCells(c, d, inner_first, x, y, z) ==
  LET inner == PairWord(Add64(heap, WordOfNat(d)))
  IN /\ HeapHolds(c, IF inner_first THEN inner ELSE FixnumWord(x))
     /\ HeapHolds(c + kWordSize, IF inner_first THEN FixnumWord(x) ELSE inner)
     /\ HeapHolds(d, FixnumWord(y))
     /\ HeapHolds(d + kWordSize, FixnumWord(z))

\* C28: (cons 1 (cons 2 3)) and (cons (cons 1 2) 3) run without a fault and
\* return a pair in a 16-byte cell of its own whose two words are the values
\* of its operands, the inner pair being in the other cell with both its
\* words written.
C28_NestedConsCells ==
  (driver = "entry" /\ node \in NestedConsNodes) =>
    /\ phase # "fault"
    /\ Returned =>
         \E c \in {0, 2 * kWordSize} :
           LET d == (2 * kWordSize) - c
           IN /\ rax = PairWord(Add64(heap, WordOfNat(c)))
              /\ node = Cons(F(1), Cons(F(2), F(3))) =>
                    TwoCells(c, d, FALSE, 1, 2, 3)
              /\ node = Cons(Cons(F(1), F(2)), F(3)) =>
                    TwoCells(c, d, TRUE, 3, 1, 2)

---------------------------------------------------------------------------
(* C30: jumps and termination of programs without labelcall *)

\* the length of the instruction the emitters wrote at offset i, 0 when the
\* bytes are none of theirs
InstrLen(i) ==
  LET B(k) == IF i + k < writer.pos THEN writer.address[i + k] ELSE -1
  IN CASE B(0) \in {184, 5, 45, 233, 232} -> 5
       [] B(0) = 195 -> 1
       [] B(0) = 72 /\ B(1) = 193 -> 4
       [] B(0) = 72 /\ B(1) \in {13, 61} -> 6
       [] B(0) = 72 /\ B(1) \in {137, 139, 3} /\ B(2) = 68 /\ B(3) = 36 -> 5
       [] B(0) = 72 /\ B(1) = 137 /\ B(2) = 70 -> 4
       [] B(0) = 72 /\ B(1) = 139 /\ B(2) = 64 -> 4
       [] B(0) = 72 /\ B(1) = 137 /\ B(2) >= 192 -> 3
       [] B(0) = 129 /\ B(1) = 198 -> 6
       [] B(0) = 15 /\ B(1) = 148 -> 3
       [] B(0) = 15 /\ B(1) = 132 -> 6
       [] OTHER -> 0

\* the offsets at which the instructions of the buffer start, from i on
RECURSIVE InstrStarts(_)
InstrStarts(i) ==
  IF i >= writer.pos \/ InstrLen(i) = 0 THEN {}
  ELSE {i} \cup InstrStarts(i + InstrLen(i))

\* the jump at i is je or jmp; the rel32 it holds
IsJump(i) ==
  writer.address[i] = 233 \/ (writer.address[i] = 15 /\ writer.address[i + 1] = 132)
JumpRel32(i) == IF writer.address[i] = 233 THEN Rel32At(i) ELSE Rel32At(i + 1)

\* the test body at hand compiled without error a program with no labelcall
CompiledNoLabelcall ==
  /\ driver \in {"function", "entry", "prog"}
  /\ Compiled /\ result = 0 /\ ~writer.abort
  /\ ~Mentions(node, "labelcall")

\* every je and jmp of the buffer holds a patched, non-negative rel32 and
\* its target is an instruction of the buffer; no instruction has run twice;
\* and the run is not cut short by the bound on its length
ForwardJumps ==
  /\ \A i \in InstrStarts(0) :
       IsJump(i) =>
         /\ JumpRel32(i) >= 0
         /\ JumpRel32(i) \notin {305419896, 439041101}
         /\ i + InstrLen(i) + JumpRel32(i) \in InstrStarts(0)
  /\ \A j, k \in 1..Len(Path) : j # k => Path[j] # Path[k]
  /\ phase = "running" => Len(trace) < MaxSteps

\* C30 as stated: moreover the run reaches the final ret, the last byte
\* emitted, and no earlier end.
C30_AsStated ==
  CompiledNoLabelcall =>
    /\ ForwardJumps
    /\ phase # "fault"
    /\ Returned => trace[Len(trace)] = writer.pos - 1

\* C30: in a program that compiles without error and has no labelcall every
\* je and jmp has a patched non-negative displacement whose target is an
\* instruction of the emitted code, so a run from offset 0 executes each
\* instruction at most once; it ends at a ret, or at the fault of a load or
\* store (car of a value that is no pair, a cons after rsi was truncated).
C30_ForwardJumpsOnly ==
  CompiledNoLabelcall =>
    /\ ForwardJumps
    /\ Returned => writer.address[trace[Len(trace)]] = 195
    /\ phase = "fault" => writer.address[trace[Len(trace)]] = 72

\* the nested if has taken the first je, passed the second and the jmp
\* after it, and returned 2
C30_Witness ==
  /\ Returned /\ driver = "entry"
  /\ node = If(call1("zero?", F(1)), F(1), If(F(0), F(2), F(1)))
  /\ rax = FixnumWord(2)
  /\ Cardinality({i \in InstrStarts(0) : IsJump(i)}) = 4


=========================================================================
